---- MODULE Spec2Model ----
(***************************************************************************)
(* SnapbackSM (creator-node/src/snapbackSM/snapbackSM.js): the periodic    *)
(* state-machine job, the two sync queues with their workers, enqueueSync  *)
(* with the sync de-duplicator, and the replica-set reconfiguration.       *)
(*                                                                         *)
(* Every `await` of the source is a point where other handlers may run;    *)
(* an action is the code between two such points that touch shared state   *)
(* (the Bull queues, the de-duplicator, currentModuloSlice).               *)
(***************************************************************************)
EXTENDS Integers, Sequences, FiniteSets, TLC

\* ---------------------------------------------------------------------------
\* Program constants
\* ---------------------------------------------------------------------------
MaxSyncMonitoringDurationInMs == 360000
SyncMonitoringRetryDelayMs == 15000
ModuloBase == 24
Recurring == "RECURRING"
Manual == "MANUAL"
SyncType == {Recurring, Manual}

\* Configuration read in the constructor and in additionalSyncIsRequired
MaxManualRequestSyncJobConcurrency == 1
MaxRecurringRequestSyncJobConcurrency == 1
MaxExportClockValueRange == 1

\* Bull runs one job at a time when process() is given no concurrency
StateMachineConcurrency == 1

\* ---------------------------------------------------------------------------
\* Bounds of the model
\* ---------------------------------------------------------------------------
\* clock values range over 0..MaxClock
MaxClock == 2
\* a sync queue holds at most this many waiting jobs; an add beyond it waits
MaxWaiting == 2
\* time one clock poll takes to answer, in units of the retry delay
SlowPollLatency == 23
\* a run follows the state machine until issueUpdateReplicaSetOp has worked
\* this many times on a replica set with an unhealthy member
MaxReconfigs == 1

\* a shorter time one clock poll takes to answer, in units of the retry delay
FastPollLatency == 7

\* number of retry delays that fit in the monitoring window
MaxPolls == MaxSyncMonitoringDurationInMs \div SyncMonitoringRetryDelayMs

\* ---------------------------------------------------------------------------
\* Endpoints and users
\* ---------------------------------------------------------------------------
Self == "self"
PeerA == "A"
PeerB == "B"
PeerC == "C"
\* an absent secondary of an incomplete replica set (a false-y value)
NoEndpoint == "none"
\* the nodes autoSelectCreatorNodes answers with, outside the blacklist
NewPrimary == "R0"
NewSecondary1 == "R1"
NewSecondary2 == "R2"

User(id, w, p, s1, s2) ==
  [user_id |-> id, wallet |-> w, primary |-> p, secondary1 |-> s1, secondary2 |-> s2]

\* what peerSetManager answers in a run: the users of this node and the
\* unhealthy peers. A user this node is primary of with a healthy secondary;
\* a user this node is a secondary of whose primary, or whose primary and
\* other secondary, are unhealthy
Scenarios ==
  { [users |-> << User(24, "w1", Self, PeerA, NoEndpoint) >>, unhealthy |-> {}],
    [users |-> << User(1, "w2", PeerA, Self, PeerB) >>, unhealthy |-> {PeerA}],
    [users |-> << User(1, "w2", PeerA, Self, PeerB) >>, unhealthy |-> {PeerA, PeerB}] }

\* a user this node is primary of, with one unhealthy and one healthy secondary
PrimaryScenarios ==
  { [users |-> << User(1, "w3", Self, PeerA, PeerB) >>, unhealthy |-> {PeerA}] }

\* two users of one slice, this node a secondary of both, their primary
\* unhealthy; or the user this node is primary of with a healthy secondary
SharedSliceScenarios ==
  { [users |-> << User(1, "w2", PeerA, Self, PeerB), User(25, "w4", PeerA, Self, PeerB) >>,
     unhealthy |-> {PeerA}],
    [users |-> << User(24, "w1", Self, PeerA, NoEndpoint) >>, unhealthy |-> {}] }

\* users of two slices: in slice 1 a user this node is a secondary of and a
\* user it is the primary of, with two secondaries; in slice 0 a user it is
\* the primary of, with one secondary. All peers are healthy, or A is not
LoopScenarios ==
  { [users |-> << User(1, "w2", PeerA, Self, PeerB), User(25, "w3", Self, PeerA, PeerB),
                  User(24, "w1", Self, PeerA, NoEndpoint) >>,
     unhealthy |-> unhealthy] : unhealthy \in {{}, {PeerA}} }

\* a user whose replica set does not hold this node and has no healthy
\* member; or the user this node is primary of with a healthy secondary
NoneHealthyScenarios ==
  { [users |-> << User(1, "w5", PeerA, PeerB, PeerC) >>, unhealthy |-> {PeerA, PeerB, PeerC}],
    [users |-> << User(24, "w1", Self, PeerA, NoEndpoint) >>, unhealthy |-> {}] }

\* the users of this node with what a health probe answers that also covers
\* this node: the scenarios above and a user this node is primary of, both
\* secondaries unhealthy; this node itself has passed or failed the probe
SelfProbedScenarios ==
  { [users |-> sc.users, unhealthy |-> sc.unhealthy \cup own] :
      sc \in Scenarios \cup
               {[users |-> << User(25, "w3", Self, PeerA, PeerB) >>,
                 unhealthy |-> {PeerA, PeerB}]},
      own \in {{}, {Self}} }

\* a secondary's answer to batch_clock_status without an entry for the wallet
MissingClock == -1

VARIABLES
  currentModuloSlice,   \* this.currentModuloSlice
  smWaiting,            \* jobs waiting in stateMachineQueue
  smActive,             \* jobs of stateMachineQueue being processed
  smPc,                 \* position of the stateMachineQueue processor
  smOutcome,            \* how the last processStateMachineOperation ended
  reconfigsDone,        \* replica sets with an unhealthy member worked on so far
  potentialSyncRequests,       \* the iteration's (user, secondary) pairs
  requiredUpdateReplicaSetOps, \* the iteration's reconfig ops still to run
  reconfig,             \* locals of the running issueUpdateReplicaSetOp
  ursmWrites,           \* updateReplicaSet calls that succeeded this iteration
  waiting,              \* waiting jobs of manualSyncQueue / recurringSyncQueue
  worker,               \* the processors of the two sync queues
  syncDeDuplicator,     \* fingerprint -> job info of the waiting sync
  last,                 \* the enqueueSync event of the last step, if any
  discoveryUsers,       \* what getNodeUsers() answers in this run
  unhealthyPeers,       \* what getUnhealthyPeers() answers in this run
  pollLatency,          \* how long a clock poll takes in this run
  polled,               \* the answer to the clock poll of the last step, if any
  isUserMetadataNode    \* nodeConfig.get('isUserMetadataNode')

vars == << currentModuloSlice, smWaiting, smActive, smPc, smOutcome, reconfigsDone,
           potentialSyncRequests, requiredUpdateReplicaSetOps, reconfig,
           ursmWrites, waiting, worker, syncDeDuplicator, last,
           discoveryUsers, unhealthyPeers, pollLatency, polled, isUserMetadataNode >>

envVars == << discoveryUsers, unhealthyPeers, pollLatency, isUserMetadataNode >>
smLocals == << potentialSyncRequests, requiredUpdateReplicaSetOps, reconfig, ursmWrites >>
smQueueVars == << smWaiting, smActive >>

\* ---------------------------------------------------------------------------
\* Jobs and the sync de-duplicator
\* ---------------------------------------------------------------------------
Job(id, t, w, p, s, imm) ==
  [id |-> id, syncType |-> t, wallet |-> w, primary |-> p, secondary |-> s, immediate |-> imm]

NoJob == Job(0, "", "", "", "", FALSE)

\* a key without the syncType; it is what DeDuplicationKeyedOnFullTriple
\* tells from the code's key of three
SameWalletAndTarget(x, t, w, s) == x.wallet = w /\ x.secondary = s

\* the key of the de-duplicator: (syncType, userWallet, secondaryEndpoint)
SameSync(x, t, w, s) == x.syncType = t /\ x.wallet = w /\ x.secondary = s

getDuplicateSyncJobInfo(d, t, w, s) ==
  IF \E e \in d : SameSync(e, t, w, s)
  THEN (CHOOSE e \in d : SameSync(e, t, w, s)).id
  ELSE 0

recordSync(d, t, w, s, id) ==
  IF \E e \in d : SameSync(e, t, w, s)
  THEN d
  ELSE d \cup {[syncType |-> t, wallet |-> w, secondary |-> s, id |-> id]}

removeSync(d, t, w, s) == {e \in d : ~SameSync(e, t, w, s)}

\* ---------------------------------------------------------------------------
\* The two sync queues and their processors
\* ---------------------------------------------------------------------------
ManualSyncQueue == "manual-sync-queue"
RecurringSyncQueue == "recurring-sync-queue"
SyncQueues == {ManualSyncQueue, RecurringSyncQueue}

\* enqueueSync picks the queue from the syncType
QueueOf(t) == IF t = Manual THEN ManualSyncQueue ELSE RecurringSyncQueue

\* the syncType each queue's processor hands to processSyncOperation
ProcessorSyncType(q) == IF q = ManualSyncQueue THEN Manual ELSE Recurring

\* one pool of processors, of the size of both settings, behind each queue; it
\* is what SyncPoolsAreBoundedAndSeparate tells from the code's two processors
JobConcurrencyShared(q) ==
  MaxManualRequestSyncJobConcurrency + MaxRecurringRequestSyncJobConcurrency

\* the concurrency each queue's processor is registered with
JobConcurrency(q) ==
  IF q = ManualSyncQueue
  THEN MaxManualRequestSyncJobConcurrency
  ELSE MaxRecurringRequestSyncJobConcurrency

\* one worker per unit of concurrency of each queue's processor
Workers == UNION {{<<q, i>> : i \in 1..JobConcurrency(q)} : q \in SyncQueues}

IdleWorker ==
  [pc |-> "idle", job |-> NoJob, clock |-> 0, elapsed |-> 0, samples |-> 0, enq |-> NoJob]

NoEvent ==
  [op |-> "none", syncType |-> "", wallet |-> "", secondary |-> "",
   id |-> 0, lost |-> FALSE, prev |-> 0]

NoPoll == [k |-> <<"", 0>>, ok |-> FALSE, clockValue |-> 0]

NoReconfig ==
  [phase |-> "none", user_id |-> 0, wallet |-> "", current |-> <<>>,
   unhealthyReplicas |-> {}, healthyReplicas |-> <<>>, clocks |-> <<>>,
   newReplicaSet |-> <<>>, seeds |-> <<>>, called |-> 0, enq |-> NoJob]

Range(seq) == {seq[i] : i \in 1..Len(seq)}

Fingerprint(x) == [syncType |-> x.syncType, wallet |-> x.wallet, secondary |-> x.secondary]

Handle(x, id) == [fp |-> Fingerprint(x), id |-> id]

SeqHandles(q) == {Handle(q[i], q[i].id) : i \in 1..Len(q)}

\* the jobs some part of the program still holds, as (fingerprint, id)
LiveHandles ==
  UNION {SeqHandles(waiting[q]) : q \in SyncQueues}
  \cup {Handle(worker[k].job, worker[k].job.id) : k \in Workers}
  \cup {Handle(worker[k].enq, worker[k].enq.id) : k \in Workers}
  \cup {Handle(potentialSyncRequests[i].job, potentialSyncRequests[i].job.id) :
          i \in 1..Len(potentialSyncRequests)}
  \cup {Handle(reconfig.enq, reconfig.enq.id)}
  \cup {Handle(e, e.id) : e \in syncDeDuplicator}
  \cup {Handle(last, last.id), Handle(last, last.prev)}

\* Bull gives every job its own id: the id of a new job is not that of any
\* job still held; ids tell apart the jobs of one fingerprint
NewJobId(t, w, s) ==
  LET used == {h.id : h \in {x \in LiveHandles : SameSync(x.fp, t, w, s)}}
  IN CHOOSE i \in 1..(Cardinality(used) + 1) :
       i \notin used /\ \A j \in 1..(i - 1) : j \in used

\* ---------------------------------------------------------------------------
\* enqueueSync
\* ---------------------------------------------------------------------------
\* an enqueueSync that never takes the duplicate branch; it is what
\* SecondEnqueueReturnsFirstHandle tells from the code's test
DuplicateFoundNever(dup) == FALSE

\* `if (duplicateSyncJobInfo)`
DuplicateFound(dup) == dup # 0

\* what enqueueSync does up to the await of queue.add
EnqueueOutcome(t, w, s, addOk) ==
  LET dup == getDuplicateSyncJobInfo(syncDeDuplicator, t, w, s)
  IN IF DuplicateFound(dup) THEN [op |-> "dup", id |-> dup]
     ELSE IF addOk THEN [op |-> "added", id |-> NewJobId(t, w, s)]
     ELSE [op |-> "err", id |-> 0]

\* the job enqueueSync returns once queue.add has answered
enqueueSyncResult(job) == job.id

\* enqueueSync from its call to the await of queue.add: the duplicate is
\* returned, or the job is put on the queue of its syncType, or add throws
enqueueSyncAdd(t, w, p, s, imm, addOk) ==
  LET o == EnqueueOutcome(t, w, s, addOk)
  IN /\ (o.op = "added") => Len(waiting[QueueOf(t)]) < MaxWaiting
     /\ waiting' = IF o.op = "added"
                   THEN [waiting EXCEPT ![QueueOf(t)] = Append(@, Job(o.id, t, w, p, s, imm))]
                   ELSE waiting
     /\ last' = [op |-> o.op, syncType |-> t, wallet |-> w, secondary |-> s,
                 id |-> o.id, lost |-> FALSE,
                 prev |-> IF last.op = "recorded" /\ ~last.lost /\ SameSync(last, t, w, s)
                          THEN last.id ELSE 0]

\* enqueueSync after queue.add has answered: record the sync, return jobInfo
enqueueSyncRecord(job) ==
  /\ polled' = NoPoll
  /\ syncDeDuplicator' =
       recordSync(syncDeDuplicator, job.syncType, job.wallet, job.secondary, job.id)
  /\ last' = [op |-> "recorded", syncType |-> job.syncType, wallet |-> job.wallet,
              secondary |-> job.secondary, id |-> enqueueSyncResult(job),
              lost |-> getDuplicateSyncJobInfo(syncDeDuplicator, job.syncType,
                                               job.wallet, job.secondary) # 0,
              prev |-> 0]

\* ---------------------------------------------------------------------------
\* processSyncOperation and additionalSyncIsRequired
\* ---------------------------------------------------------------------------
\* a catch block that leaves the monitoring loop; it is what
\* PollErrorKeepsMonitoring tells from the code's catch, which only logs
AfterPollErrorBreak == "resync"

\* the catch block of the monitoring loop logs, the loop goes on to the delay
AfterPollError == "retry"

\* a monitor for which a secondary at the primary's clock has not caught up;
\* it is what MonitorFollowsSamples tells from the code's `>=`
MonitorDecisionStrict(primaryClockValue, resp) ==
  IF ~resp.ok THEN AfterPollError
  ELSE IF resp.clockValue + MaxExportClockValueRange < primaryClockValue THEN "resync"
  ELSE IF resp.clockValue > primaryClockValue THEN "synced"
  ELSE "retry"

\* one pass of the monitoring loop on the answer of the clock_status request
MonitorDecision(primaryClockValue, resp) ==
  IF ~resp.ok THEN AfterPollError
  ELSE IF resp.clockValue + MaxExportClockValueRange < primaryClockValue THEN "resync"
  ELSE IF resp.clockValue >= primaryClockValue THEN "synced"
  ELSE "retry"

\* what the clock_status request can bring: a clock value, or it throws
ClockStatusAnswers ==
  {[ok |-> FALSE, clockValue |-> 0]} \cup {[ok |-> TRUE, clockValue |-> c] : c \in 0..MaxClock}

\* a queue that activates its newest job first; it is what
\* QueuesAreFifoAndStarveNoJob tells from a queue whose jobs are added
\* without options
ActivateNewest(queue) ==
  [job |-> queue[Len(queue)], rest |-> SubSeq(queue, 1, Len(queue) - 1)]

\* the jobs are added without options (no lifo, no priority): the queue
\* activates the job that has waited longest
Activate(queue) == [job |-> Head(queue), rest |-> Tail(queue)]

\* init registers the processors of the three queues unless it has returned
\* early, on a user-metadata node
ProcessorsRegistered == ~isUserMetadataNode

\* a worker takes the first waiting job of its queue; processSyncOperation
\* removes the sync from the de-duplicator before its first await
PullSyncJob(k) ==
  /\ ProcessorsRegistered
  /\ worker[k].pc = "idle"
  /\ waiting[k[1]] # <<>>
  /\ LET job == Activate(waiting[k[1]]).job
     IN /\ waiting' = [waiting EXCEPT ![k[1]] = Activate(@).rest]
        /\ syncDeDuplicator' =
             removeSync(syncDeDuplicator, ProcessorSyncType(k[1]), job.wallet, job.secondary)
        /\ worker' = [worker EXCEPT ![k] = [IdleWorker EXCEPT !.pc = "post", !.job = job]]
  /\ last' = NoEvent /\ polled' = NoPoll
  /\ UNCHANGED << currentModuloSlice, smQueueVars, smPc, smOutcome, reconfigsDone, smLocals, envVars >>

\* the primary clock is read and the sync request is posted to the secondary;
\* a failure is caught by the processor, which ends the job
PostSyncRequest(k) ==
  /\ worker[k].pc = "post"
  /\ \/ \E c \in 0..MaxClock :
          worker' = [worker EXCEPT ![k].pc = "monitor", ![k].clock = c, ![k].elapsed = 0]
     \/ worker' = [worker EXCEPT ![k] = IdleWorker]
  /\ last' = NoEvent /\ polled' = NoPoll
  /\ UNCHANGED << currentModuloSlice, smQueueVars, smPc, smOutcome, reconfigsDone, smLocals,
                  waiting, syncDeDuplicator, envVars >>

\* a successor that takes over the `immediate` of its job; it is what
\* SuccessorIffSyncRequired tells from the code's re-enqueue, which passes none
InheritedImmediate(job) == job.immediate

\* the re-enqueue passes no `immediate`: enqueueSync's default applies
SuccessorImmediate(job) == FALSE

\* processSyncOperation re-enqueues the sync (source this node, immediate
\* left at its default) and ends, or waits for queue.add
ReEnqueue(k, addOk) ==
  LET j == worker[k].job
      t == ProcessorSyncType(k[1])
      o == EnqueueOutcome(t, j.wallet, j.secondary, addOk)
      imm == SuccessorImmediate(j)
  IN /\ enqueueSyncAdd(t, j.wallet, Self, j.secondary, imm, addOk)
     /\ worker' = IF o.op = "added"
                  THEN [worker EXCEPT ![k].pc = "requeue",
                                      ![k].enq = Job(o.id, t, j.wallet, Self, j.secondary, imm)]
                  ELSE [worker EXCEPT ![k] = IdleWorker]

\* a pass of the monitoring loop without the retry delay; it is what
\* MonitorTakesAtMostMaxPollsSamples tells from the code's delay in every pass
PollDurationOfRequest(latency) == latency

\* the time one pass of the monitoring loop takes, in units of the retry
\* delay: the clock_status request and the delay
PollDuration(latency) == latency + 1

\* one clock poll of additionalSyncIsRequired and what follows it
PollClock(k) ==
  /\ worker[k].pc = "monitor"
  /\ worker[k].elapsed < MaxPolls
  /\ \E resp \in ClockStatusAnswers, addOk \in BOOLEAN :
       LET d == MonitorDecision(worker[k].clock, resp)
           t == worker[k].elapsed + PollDuration(pollLatency)
       IN /\ polled' = [k |-> k, ok |-> resp.ok, clockValue |-> resp.clockValue]
          /\ \/ /\ d = "synced"
                /\ worker' = [worker EXCEPT ![k] = IdleWorker]
                /\ last' = NoEvent
                /\ UNCHANGED waiting
             \/ /\ d = "retry" /\ t < MaxPolls
                /\ worker' = [worker EXCEPT ![k].elapsed = t, ![k].samples = @ + 1]
                /\ last' = NoEvent
                /\ UNCHANGED waiting
             \/ /\ d = "resync" \/ (d = "retry" /\ t >= MaxPolls)
                /\ ReEnqueue(k, addOk)
  /\ UNCHANGED << currentModuloSlice, smQueueVars, smPc, smOutcome, reconfigsDone, smLocals,
                  syncDeDuplicator, envVars >>

\* queue.add of the re-enqueue has answered: the sync is recorded, the job ends
RecordReEnqueue(k) ==
  /\ worker[k].pc = "requeue"
  /\ enqueueSyncRecord(worker[k].enq)
  /\ worker' = [worker EXCEPT ![k] = IdleWorker]
  /\ UNCHANGED << currentModuloSlice, smQueueVars, smPc, smOutcome, reconfigsDone, smLocals,
                  waiting, envVars >>

\* ---------------------------------------------------------------------------
\* processStateMachineOperation
\* ---------------------------------------------------------------------------
\* a selection that keeps every user of the node; it is what
\* IterationProcessesItsSliceOnly tells from the code's filter
sliceUsersAll(nodeUsers, slice) == nodeUsers

\* `nodeUser.user_id % ModuloBase === this.currentModuloSlice`
sliceUsers(nodeUsers, slice) ==
  SelectSeq(nodeUsers, LAMBDA u : u.user_id % ModuloBase = slice)

\* an increment without the modulo; it is what SliceAdvancesModulo tells from
\* the code's two assignments
NextModuloSliceUnwrapped(slice) == slice + 1

\* `this.currentModuloSlice += 1` and `... % ModuloBase`
NextModuloSlice(slice) == (slice + 1) % ModuloBase

\* an array of endpoints left as it is; it is what AbsentSlotIsNoPeer tells
\* from the code's filter
KeepFalsy(endpoints) == endpoints

\* `.filter(Boolean)` on an array of endpoints
FilterBoolean(endpoints) == SelectSeq(endpoints, LAMBDA e : e # NoEndpoint)

\* a loop that records every unhealthy member of the replica set, this node
\* included; it is what OwnEndpointIsNeverUnhealthyReplica tells from the
\* code's two branches
UnhealthyReplicasOfAnyMember(u, unhealthy) ==
  SelectSeq(FilterBoolean(<<u.primary, u.secondary1, u.secondary2>>), LAMBDA e : e \in unhealthy)

\* the unhealthyReplicas the loop records for one user
UnhealthyReplicasOf(u, unhealthy) ==
  IF u.primary = Self
  THEN SelectSeq(FilterBoolean(<<u.secondary1, u.secondary2>>), LAMBDA e : e \in unhealthy)
  ELSE SelectSeq(SelectSeq(FilterBoolean(<<u.primary, u.secondary1, u.secondary2>>),
                           LAMBDA e : e # Self),
                 LAMBDA e : e \in unhealthy)

\* a planning loop that takes no account of who the primary is; it is what
\* SecondaryUserGetsReconfigOpOnly tells from the code's two branches
SyncTargetsOfAnyPrimary(u, unhealthy) ==
  SelectSeq(FilterBoolean(<<u.secondary1, u.secondary2>>), LAMBDA e : e \notin unhealthy)

\* a planning loop that also pushes the unhealthy secondaries; it is what
\* SecondaryIsUnhealthyOrSynced tells from the code's else branch
SyncTargetsOfAll(u, unhealthy) ==
  IF u.primary = Self THEN FilterBoolean(<<u.secondary1, u.secondary2>>) ELSE <<>>

\* the secondaries of one user the loop pushes to potentialSyncRequests
SyncTargetsOf(u, unhealthy) ==
  IF u.primary = Self
  THEN SelectSeq(FilterBoolean(<<u.secondary1, u.secondary2>>), LAMBDA e : e \notin unhealthy)
  ELSE <<>>

RECURSIVE BuildPotentialSyncRequests(_, _)
BuildPotentialSyncRequests(nodeUsers, unhealthy) ==
  IF nodeUsers = <<>> THEN <<>>
  ELSE LET u == Head(nodeUsers)
           t == SyncTargetsOf(u, unhealthy)
       IN [i \in 1..Len(t) |-> [wallet |-> u.wallet, secondary |-> t[i]]]
          \o BuildPotentialSyncRequests(Tail(nodeUsers), unhealthy)

BuildRequiredUpdateReplicaSetOps(nodeUsers, unhealthy) ==
  [i \in 1..Len(nodeUsers) |->
     [user_id |-> nodeUsers[i].user_id, wallet |-> nodeUsers[i].wallet,
      primary |-> nodeUsers[i].primary, secondary1 |-> nodeUsers[i].secondary1,
      secondary2 |-> nodeUsers[i].secondary2,
      unhealthyReplicas |-> UnhealthyReplicasOf(nodeUsers[i], unhealthy)]]

\* `!userSecondaryClockVal || (userPrimaryClockVal > userSecondaryClockVal)`
SyncRequired(primaryClock, secondaryClock) ==
  (secondaryClock = MissingClock \/ secondaryClock = 0)
  \/ (secondaryClock # MissingClock /\ primaryClock > secondaryClock)

\* the clock values of a request are dead once its enqueueSync is called
ForgetClocks(request) == [request EXCEPT !.primaryClock = 0, !.secondaryClock = 0]

Count(seq, status) == Cardinality({i \in 1..Len(seq) : seq[i].status = status})

\* a test that also holds when both numbers are equal; it is what
\* AbortsIffMoreErrorsThanIssued tells from the code's `>`
SyncRequestErrorsReachIssued(requests) == Count(requests, "err") >= Count(requests, "issued")

\* `syncRequestErrors.length > numSyncRequestsIssued`
TooManySyncRequestErrors(requests) == Count(requests, "err") > Count(requests, "issued")

\* processStateMachineOperation returns: the slice moves on only at the end
\* of the try block, the catch block leaves it alone
FinishIteration(ok) ==
  /\ currentModuloSlice' =
       IF ok THEN NextModuloSlice(currentModuloSlice) ELSE currentModuloSlice
  /\ smOutcome' = IF ok THEN "ok" ELSE "failed"
  /\ smPc' = "delay"
  /\ potentialSyncRequests' = <<>>
  /\ requiredUpdateReplicaSetOps' = <<>>
  /\ reconfig' = NoReconfig

\* an error of a data fetch that is logged and passed over, the loop going on
\* to the reconfigurations; it is what FetchFailureEndsIteration tells from
\* the code's rethrow
DataFetchFailureSwallowed ==
  /\ smOutcome' = "failed"
  /\ smPc' = "reconfig"
  /\ potentialSyncRequests' = <<>>
  /\ requiredUpdateReplicaSetOps' =
       BuildRequiredUpdateReplicaSetOps(sliceUsers(discoveryUsers, currentModuloSlice),
                                        unhealthyPeers)
  /\ UNCHANGED << currentModuloSlice, reconfig >>

\* the catch blocks of the data fetches rethrow to the outer catch block
DataFetchFailed == FinishIteration(FALSE)

\* stateMachineQueue hands its waiting job to the processor
StartStateMachineJob ==
  /\ ProcessorsRegistered
  /\ smWaiting > 0
  /\ smActive < StateMachineConcurrency
  /\ reconfigsDone < MaxReconfigs
  /\ smWaiting' = smWaiting - 1
  /\ smActive' = smActive + 1
  /\ smPc' = "plan"
  /\ last' = NoEvent /\ polled' = NoPoll
  /\ UNCHANGED << currentModuloSlice, smOutcome, reconfigsDone, smLocals, waiting, worker,
                  syncDeDuplicator, envVars >>

\* getNodeUsers, sliceUsers, getUnhealthyPeers, the planning loop, the batched
\* clock requests, the primary clock values read by issueSyncRequests and the
\* syncRequired of every potential sync request
PlanIteration ==
  /\ smPc = "plan"
  /\ last' = NoEvent /\ polled' = NoPoll
  /\ UNCHANGED << smQueueVars, reconfigsDone, ursmWrites, waiting, worker,
                  syncDeDuplicator, envVars >>
  /\ \/ \* getNodeUsers, getUnhealthyPeers or a batched clock request throws
        DataFetchFailed
     \/ LET nodeUsers == sliceUsers(discoveryUsers, currentModuloSlice)
            pairs == BuildPotentialSyncRequests(nodeUsers, unhealthyPeers)
            ops == BuildRequiredUpdateReplicaSetOps(nodeUsers, unhealthyPeers)
        IN \E pc \in 0..MaxClock,
                 sc \in [1..Len(pairs) -> {MissingClock} \cup (0..MaxClock)] :
                LET requests ==
                      [i \in 1..Len(pairs) |->
                         [wallet |-> pairs[i].wallet, secondary |-> pairs[i].secondary,
                          primaryClock |-> pc, secondaryClock |-> sc[i],
                          status |-> IF SyncRequired(pc, sc[i]) THEN "todo" ELSE "skip",
                          job |-> NoJob]]
                IN IF requests # <<>>
                   THEN /\ potentialSyncRequests' = requests
                        /\ requiredUpdateReplicaSetOps' = ops
                        /\ smPc' = "sync"
                        /\ UNCHANGED << currentModuloSlice, smOutcome, reconfig >>
                   ELSE IF ops # <<>>
                   THEN /\ potentialSyncRequests' = <<>>
                        /\ requiredUpdateReplicaSetOps' = ops
                        /\ smPc' = "reconfig"
                        /\ UNCHANGED << currentModuloSlice, smOutcome, reconfig >>
                   ELSE FinishIteration(TRUE)

\* issueSyncRequests: the enqueueSync call for one user up to queue.add
IssueSyncRequest(i) ==
  /\ smPc = "sync"
  /\ potentialSyncRequests[i].status = "todo"
  /\ \A j \in 1..(i - 1) : potentialSyncRequests[j].status # "todo"
  /\ polled' = NoPoll
  /\ \E addOk \in BOOLEAN :
       LET r == potentialSyncRequests[i]
           o == EnqueueOutcome(Recurring, r.wallet, r.secondary, addOk)
       IN /\ enqueueSyncAdd(Recurring, r.wallet, Self, r.secondary, FALSE, addOk)
          /\ potentialSyncRequests' =
               [potentialSyncRequests EXCEPT
                  ![i] = [ForgetClocks(r) EXCEPT
                            !.status = CASE o.op = "dup" -> "issued"
                                         [] o.op = "added" -> "inflight"
                                         [] OTHER -> "err",
                            !.job = IF o.op = "added"
                                    THEN Job(o.id, Recurring, r.wallet, Self, r.secondary, FALSE)
                                    ELSE NoJob]]
  /\ UNCHANGED << currentModuloSlice, smQueueVars, smPc, smOutcome, reconfigsDone,
                  requiredUpdateReplicaSetOps, reconfig, ursmWrites, worker,
                  syncDeDuplicator, envVars >>

\* issueSyncRequests: queue.add has answered for one user
RecordSyncRequest(i) ==
  /\ smPc = "sync"
  /\ potentialSyncRequests[i].status = "inflight"
  /\ Count(potentialSyncRequests, "todo") = 0
  /\ enqueueSyncRecord(potentialSyncRequests[i].job)
  /\ potentialSyncRequests' =
       [potentialSyncRequests EXCEPT ![i].status = "issued", ![i].job = NoJob]
  /\ UNCHANGED << currentModuloSlice, smQueueVars, smPc, smOutcome, reconfigsDone,
                  requiredUpdateReplicaSetOps, reconfig, ursmWrites, waiting, worker,
                  envVars >>

\* issueSyncRequests has returned
SyncRequestsIssued ==
  /\ smPc = "sync"
  /\ \A i \in 1..Len(potentialSyncRequests) :
       potentialSyncRequests[i].status \in {"skip", "issued", "err"}
  /\ last' = NoEvent /\ polled' = NoPoll
  /\ UNCHANGED << smQueueVars, reconfigsDone, ursmWrites, waiting, worker,
                  syncDeDuplicator, envVars >>
  /\ IF TooManySyncRequestErrors(potentialSyncRequests)
     THEN FinishIteration(FALSE)
     ELSE IF requiredUpdateReplicaSetOps = <<>>
     THEN FinishIteration(TRUE)
     ELSE /\ smPc' = "reconfig"
          /\ potentialSyncRequests' = <<>>
          /\ UNCHANGED << currentModuloSlice, smOutcome, requiredUpdateReplicaSetOps, reconfig >>

\* ---------------------------------------------------------------------------
\* issueUpdateReplicaSetOp
\* ---------------------------------------------------------------------------
\* this.endpointToSPIdMap; 0 stands for the undefined of an unknown key
endpointToSPIdMap(e) ==
  CASE e = Self -> 1
    [] e = PeerA -> 2
    [] e = PeerB -> 3
    [] e = NewPrimary -> 4
    [] e = NewSecondary1 -> 5
    [] e = NewSecondary2 -> 6
    [] e = PeerC -> 7
    [] OTHER -> 0

\* a filter that also drops the absent slots; it is what
\* HealthyUserIsLeftAlone tells from the code's filter, which keeps them
HealthyReplicasPresent(currentReplicaSet, unhealthyReplicasSet) ==
  SelectSeq(currentReplicaSet, LAMBDA r : r # NoEndpoint /\ r \notin unhealthyReplicasSet)

\* `currentReplicaSet.filter(replica => !unhealthyReplicasSet.has(replica))`
HealthyReplicas(currentReplicaSet, unhealthyReplicasSet) ==
  SelectSeq(currentReplicaSet, LAMBDA r : r \notin unhealthyReplicasSet)

\* a strict comparison; it is what TwoHealthyKeepsBothSurvivors tells from the
\* code's `>=` on a tie
ClockGreater(a, b) == a # -1 /\ b # -1 /\ a > b

\* `>=` on two entries of endpointToClockMap; -1 stands for undefined
ClockGreaterOrEqual(a, b) == a # -1 /\ b # -1 /\ a >= b

\* the healthy replica as primary; it is what OneHealthyKeepsOldPrimary tells
\* from the code's use of `primary`
SurvivorForOneHealthy(primary, healthyReplicas) == healthyReplicas[1]

\* the primary issueUpdateReplicaSetOp keeps when one replica is healthy
PrimaryForOneHealthy(primary, healthyReplicas) == primary

\* one seed sync, to the new node only; it is what TwoSeedsFromNewPrimary tells
\* from the code's two enqueueSync calls
SeedNewNodeOnly(newPrimary, newSecondary) == << <<newPrimary, NewPrimary>> >>

\* the seed syncs <<source, target>> of the branch for two healthy replicas
SeedsForTwoHealthy(newPrimary, newSecondary) ==
  << <<newPrimary, newSecondary>>, <<newPrimary, NewPrimary>> >>

\* seed syncs that take the new primary as their source; it is what
\* NoneHealthySeedsWholeNewReplicaSet tells from the code's `primary`
SeedsFromNewPrimary(primary) ==
  << <<NewPrimary, NewSecondary1>>, <<NewPrimary, NewSecondary2>> >>

\* the seed syncs <<source, target>> of the branch for no healthy replica
SeedsForNoneHealthy(primary) ==
  << <<primary, NewPrimary>>, <<primary, NewSecondary1>>, <<primary, NewSecondary2>> >>

\* the new replica set and the seed syncs <<source, target>> for the number of
\* healthy replicas; clocks are those of healthyReplicas[1] and [2]
ReplicaSetDecision(primary, healthyReplicas, clocks) ==
  CASE Len(healthyReplicas) = 0 ->
         [newReplicaSet |-> <<NewPrimary, NewSecondary1, NewSecondary2>>,
          seeds |-> SeedsForNoneHealthy(primary)]
    [] Len(healthyReplicas) = 1 ->
         LET p == PrimaryForOneHealthy(primary, healthyReplicas)
         IN [newReplicaSet |-> <<p, NewPrimary, NewSecondary1>>,
             seeds |-> << <<primary, NewPrimary>>, <<primary, NewSecondary1>> >>]
    [] Len(healthyReplicas) = 2 ->
         LET first == ClockGreaterOrEqual(clocks[1], clocks[2])
             newPrimary == IF first THEN healthyReplicas[1] ELSE healthyReplicas[2]
             newSecondary == IF first THEN healthyReplicas[2] ELSE healthyReplicas[1]
         IN [newReplicaSet |-> <<newPrimary, newSecondary, NewPrimary>>,
             seeds |-> SeedsForTwoHealthy(newPrimary, newSecondary)]
    [] OTHER -> [newReplicaSet |-> <<>>, seeds |-> <<>>]

\* what getClockValuesFromReplicaSet answers for one replica
ClockAnswer(e) == IF e = NoEndpoint THEN {-1} ELSE 0..MaxClock

\* an error of issueUpdateReplicaSetOp that reaches the loop and ends the
\* iteration; it is what PlannerFailureIsContained tells from the empty catch
ReplicaSetOpAborts == FinishIteration(FALSE)

\* issueUpdateReplicaSetOp has returned (its catch block swallows any error);
\* after the last user the slice moves on
ReplicaSetOpDone ==
  IF Len(requiredUpdateReplicaSetOps) = 1
  THEN FinishIteration(TRUE)
  ELSE /\ requiredUpdateReplicaSetOps' = Tail(requiredUpdateReplicaSetOps)
       /\ reconfig' = NoReconfig
       /\ UNCHANGED << currentModuloSlice, smOutcome, smPc, potentialSyncRequests >>

\* a loop that takes the users from the end of the list; it is what
\* PlannerRunsOneUserAtATimeInOrder tells from the code's iteration
LastUserInfo(ops) == ops[Len(ops)]

\* `for await (const userInfo of requiredUpdateReplicaSetOps)`: the user of
\* the next call; the users before it have been dropped on return
NextUserInfo(ops) == Head(ops)

\* issueUpdateReplicaSetOp for the next user up to its first enqueueSync:
\* autoSelectCreatorNodes, the healthy replicas, the clock values (two healthy)
StartReplicaSetOp ==
  /\ smPc = "reconfig"
  /\ reconfig.phase = "none"
  /\ requiredUpdateReplicaSetOps # <<>>
  /\ last' = NoEvent /\ polled' = NoPoll
  /\ UNCHANGED << smQueueVars, ursmWrites, waiting, worker, syncDeDuplicator, envVars >>
  /\ LET op == NextUserInfo(requiredUpdateReplicaSetOps)
         current == <<op.primary, op.secondary1, op.secondary2>>
         healthy == HealthyReplicas(current, Range(op.unhealthyReplicas))
     IN \/ \* autoSelectCreatorNodes or getClockValuesFromReplicaSet throws
           /\ Len(healthy) <= 2
           /\ ReplicaSetOpDone
           /\ reconfigsDone' = reconfigsDone + 1
        \/ \* no branch is taken: newReplicaSetSPIds[0] throws a TypeError
           /\ Len(healthy) > 2
           /\ ReplicaSetOpDone
           /\ UNCHANGED reconfigsDone
        \/ /\ Len(healthy) <= 2
           /\ reconfigsDone' = reconfigsDone + 1
           /\ \E clocks \in IF Len(healthy) = 2
                            THEN {<<a, b>> : a \in ClockAnswer(healthy[1]),
                                             b \in ClockAnswer(healthy[2])}
                            ELSE {<<>>} :
                LET d == ReplicaSetDecision(op.primary, healthy, clocks)
                IN reconfig' =
                     [phase |-> "seeding", user_id |-> op.user_id, wallet |-> op.wallet,
                      current |-> current,
                      unhealthyReplicas |-> Range(op.unhealthyReplicas),
                      healthyReplicas |-> healthy, clocks |-> clocks,
                      newReplicaSet |-> d.newReplicaSet, seeds |-> d.seeds,
                      called |-> 0, enq |-> NoJob]
           /\ UNCHANGED << currentModuloSlice, smOutcome, smPc, potentialSyncRequests,
                           requiredUpdateReplicaSetOps >>

\* seed syncs that leave `immediate` at the default of enqueueSync; it is what
\* TwoHealthySeedsComeFromNewPrimary tells from the code's `immediate: true`
baseSyncRequestParamsDefault == [syncType |-> Manual, immediate |-> FALSE]

\* what every enqueueSync call of issueUpdateReplicaSetOp passes besides the
\* wallet and the two endpoints
baseSyncRequestParams == [syncType |-> Manual, immediate |-> TRUE]

\* the next seed sync: enqueueSync (Manual, immediate) up to queue.add
EnqueueSeedSync ==
  /\ smPc = "reconfig"
  /\ reconfig.phase = "seeding"
  /\ reconfig.enq = NoJob
  /\ reconfig.seeds # <<>>
  /\ polled' = NoPoll
  /\ UNCHANGED << smQueueVars, reconfigsDone, ursmWrites, worker, syncDeDuplicator, envVars >>
  /\ \E addOk \in BOOLEAN :
       LET seed == Head(reconfig.seeds)
           params == baseSyncRequestParams
           o == EnqueueOutcome(params.syncType, reconfig.wallet, seed[2], addOk)
       IN /\ enqueueSyncAdd(params.syncType, reconfig.wallet, seed[1], seed[2],
                            params.immediate, addOk)
          /\ CASE o.op = "dup" ->
                    /\ reconfig' = [reconfig EXCEPT !.seeds = Tail(@), !.called = @ + 1]
                    /\ UNCHANGED << currentModuloSlice, smOutcome, smPc,
                                    potentialSyncRequests, requiredUpdateReplicaSetOps >>
               [] o.op = "added" ->
                    /\ reconfig' = [reconfig EXCEPT
                                      !.called = @ + 1,
                                      !.enq = Job(o.id, params.syncType, reconfig.wallet,
                                                  seed[1], seed[2], params.immediate)]
                    /\ UNCHANGED << currentModuloSlice, smOutcome, smPc,
                                    potentialSyncRequests, requiredUpdateReplicaSetOps >>
               [] OTHER -> ReplicaSetOpDone

\* queue.add of a seed sync has answered
RecordSeedSync ==
  /\ smPc = "reconfig"
  /\ reconfig.enq # NoJob
  /\ enqueueSyncRecord(reconfig.enq)
  /\ reconfig' = [reconfig EXCEPT !.enq = NoJob, !.seeds = Tail(@)]
  /\ UNCHANGED << currentModuloSlice, smQueueVars, smPc, smOutcome, reconfigsDone,
                  potentialSyncRequests, requiredUpdateReplicaSetOps, ursmWrites,
                  waiting, worker, envVars >>

\* a registry write that waits for no seed sync but the one in flight; it is
\* what RegistryWriteFollowsAllSeedSyncs tells from the code's order
NoSeedSyncInFlight(r) == r.enq = NoJob

\* every `await this.enqueueSync(...)` of the branch has returned
AllSeedSyncsEnqueued(r) == r.enq = NoJob /\ r.seeds = <<>>

\* updateReplicaSet on the UserReplicaSetManager contract, which may throw
UpdateReplicaSet ==
  /\ smPc = "reconfig"
  /\ reconfig.phase = "seeding"
  /\ AllSeedSyncsEnqueued(reconfig)
  /\ last' = NoEvent /\ polled' = NoPoll
  /\ UNCHANGED << smQueueVars, reconfigsDone, waiting, worker, syncDeDuplicator, envVars >>
  /\ \/ ursmWrites' = Append(ursmWrites,
            [user_id |-> reconfig.user_id,
             primary |-> endpointToSPIdMap(reconfig.newReplicaSet[1]),
             secondaries |-> << endpointToSPIdMap(reconfig.newReplicaSet[2]),
                                endpointToSPIdMap(reconfig.newReplicaSet[3]) >>])
     \/ UNCHANGED ursmWrites
  /\ ReplicaSetOpDone

\* ---------------------------------------------------------------------------
\* The stateMachineQueue processor after processStateMachineOperation
\* ---------------------------------------------------------------------------
\* a processor that adds two next jobs; it is what OneIterationAtATime tells
\* from the code's single add
stateMachineQueueAddTwice(n) == n + 2

\* `await this.stateMachineQueue.add(...)`
stateMachineQueueAdd(n) == n + 1

\* the delay has passed and the next job is added
AddNextStateMachineJob ==
  /\ smPc = "delay"
  /\ smWaiting' = stateMachineQueueAdd(smWaiting)
  /\ smPc' = "added"
  /\ ursmWrites' = <<>>
  /\ last' = NoEvent /\ polled' = NoPoll
  /\ UNCHANGED << currentModuloSlice, reconfigsDone, smActive, smOutcome, potentialSyncRequests,
                  requiredUpdateReplicaSetOps, reconfig, waiting, worker,
                  syncDeDuplicator, envVars >>

\* done()
StateMachineJobDone ==
  /\ smPc = "added"
  /\ smActive' = smActive - 1
  /\ smPc' = "idle"
  /\ smOutcome' = "none"
  /\ last' = NoEvent /\ polled' = NoPoll
  /\ UNCHANGED << currentModuloSlice, reconfigsDone, smWaiting, smLocals,
                  waiting, worker, syncDeDuplicator, envVars >>

\* ---------------------------------------------------------------------------
\* Specification
\* ---------------------------------------------------------------------------
\* a first state-machine job added on every node; it is what
\* UserMetadataNodeRunsNothing tells from the early return of init
FirstStateMachineJobsAlways(isUserMetadata) == 1

\* the state-machine jobs init() has added when it returns
FirstStateMachineJobs(isUserMetadata) == IF isUserMetadata THEN 0 ELSE 1

NoSyncs == [q \in SyncQueues |-> <<>>]

\* a Manual sync added by a call of enqueueSync after init() has returned
ManualSyncRequested ==
  [q \in SyncQueues |->
     IF q = ManualSyncQueue THEN << Job(1, Manual, "w2", PeerA, PeerB, TRUE) >> ELSE <<>>]

\* the de-duplicator entries of the waiting syncs
RecordedSyncs(syncs) ==
  {[syncType |-> j.syncType, wallet |-> j.wallet, secondary |-> j.secondary, id |-> j.id] :
     j \in UNION {Range(syncs[q]) : q \in SyncQueues}}

\* the state once init() has returned, with the syncs enqueued since
InitOf(scenarios, isUserMetadata, syncs) ==
  /\ isUserMetadataNode = isUserMetadata
  /\ polled = NoPoll
  /\ currentModuloSlice \in 0..(ModuloBase - 1)
  /\ smWaiting = FirstStateMachineJobs(isUserMetadata)
  /\ smActive = 0
  /\ smPc = "idle"
  /\ smOutcome = "none"
  /\ reconfigsDone = 0
  /\ potentialSyncRequests = <<>>
  /\ requiredUpdateReplicaSetOps = <<>>
  /\ reconfig = NoReconfig
  /\ ursmWrites = <<>>
  /\ waiting = syncs
  /\ worker = [k \in Workers |-> IdleWorker]
  /\ syncDeDuplicator = RecordedSyncs(syncs)
  /\ last = NoEvent
  /\ \E sc \in scenarios : discoveryUsers = sc.users /\ unhealthyPeers = sc.unhealthy
  /\ pollLatency = SlowPollLatency

\* the state once init() has returned on a content node
InitWith(scenarios) == InitOf(scenarios, FALSE, NoSyncs)

Init == InitWith(Scenarios)

PrimaryInit == InitWith(PrimaryScenarios)

SharedSliceInit == InitWith(SharedSliceScenarios)

LoopInit == InitWith(LoopScenarios)

NoneHealthyInit == InitWith(NoneHealthyScenarios)

SelfProbedInit == InitWith(SelfProbedScenarios)

\* a content node, or a user-metadata node on which enqueueSync has or has not
\* been called since init()
NodeInit ==
  \/ InitOf(Scenarios, FALSE, NoSyncs)
  \/ \E syncs \in {NoSyncs, ManualSyncRequested} : InitOf(Scenarios, TRUE, syncs)

\* how long the secondary takes to answer a clock poll, by run
PollLatencies == {0, FastPollLatency, SlowPollLatency}

\* the syncs the iteration of user w3's slice enqueues when the clock of the
\* healthy secondary B is not ahead: the recurring sync to B and the seed
\* syncs to B and to the new node
SyncsOfPrimaryScenario ==
  [q \in SyncQueues |->
     IF q = RecurringSyncQueue
     THEN << Job(1, Recurring, "w3", Self, PeerB, FALSE) >>
     ELSE << Job(1, Manual, "w3", Self, PeerB, TRUE),
             Job(1, Manual, "w3", Self, NewPrimary, TRUE) >>]

\* the recurring sync alone: the planner of that iteration has failed
RecurringSyncOfPrimaryScenario ==
  [q \in SyncQueues |->
     IF q = RecurringSyncQueue THEN SyncsOfPrimaryScenario[q] ELSE <<>>]

\* the state once that iteration has ended and no worker has taken a job yet
WorkersInitWith(syncs, latencies) ==
  /\ isUserMetadataNode = FALSE
  /\ polled = NoPoll
  /\ currentModuloSlice = 2
  /\ smWaiting = 1
  /\ smActive = 0
  /\ smPc = "idle"
  /\ smOutcome = "none"
  /\ reconfigsDone = 1
  /\ potentialSyncRequests = <<>>
  /\ requiredUpdateReplicaSetOps = <<>>
  /\ reconfig = NoReconfig
  /\ ursmWrites = <<>>
  /\ waiting = syncs
  /\ worker = [k \in Workers |-> IdleWorker]
  /\ syncDeDuplicator =
       {[syncType |-> j.syncType, wallet |-> j.wallet, secondary |-> j.secondary, id |-> j.id] :
          j \in UNION {Range(syncs[q]) : q \in SyncQueues}}
  /\ last = NoEvent
  /\ \E sc \in PrimaryScenarios : discoveryUsers = sc.users /\ unhealthyPeers = sc.unhealthy
  /\ pollLatency \in latencies

\* the recurring sync waits, the secondary answers a poll with any latency
MonitorInit == WorkersInitWith(RecurringSyncOfPrimaryScenario, PollLatencies)

\* the recurring sync and both seed syncs wait
WorkersInit == WorkersInitWith(SyncsOfPrimaryScenario, {SlowPollLatency})

StateMachineNext ==
  \/ StartStateMachineJob
  \/ PlanIteration
  \/ \E i \in 1..Len(potentialSyncRequests) : IssueSyncRequest(i)
  \/ \E i \in 1..Len(potentialSyncRequests) : RecordSyncRequest(i)
  \/ SyncRequestsIssued
  \/ StartReplicaSetOp
  \/ EnqueueSeedSync
  \/ RecordSeedSync
  \/ UpdateReplicaSet
  \/ AddNextStateMachineJob
  \/ StateMachineJobDone

WorkerNext ==
  \E k \in Workers :
    \/ PullSyncJob(k)
    \/ PostSyncRequest(k)
    \/ PollClock(k)
    \/ RecordReEnqueue(k)

Next == StateMachineNext \/ WorkerNext

Spec == Init /\ [][Next]_vars

\* the runs of a content node and of a user-metadata node
NodeSpec == NodeInit /\ [][Next]_vars

\* the runs of a node that is the primary of a user with an unhealthy secondary
PrimarySpec == PrimaryInit /\ [][Next]_vars

\* the runs of a node with two users of one slice to reconfigure, or with a
\* user to sync
SharedSliceSpec == SharedSliceInit /\ [][Next]_vars

\* the runs of the state machine of that node up to the first step of a worker
PlannerSpec == PrimaryInit /\ [][StateMachineNext]_vars

\* the runs of a node with a user none of whose replicas is healthy, or with a
\* user to sync
NoneHealthySpec == NoneHealthyInit /\ [][Next]_vars

\* the runs of the state machine of a node with users in two slices, up to
\* the first step of a worker
LoopSpec == LoopInit /\ [][StateMachineNext]_vars

\* the runs of the state machine of a node whose health probe may name the
\* node itself, up to the first step of a worker
SelfProbedSpec == SelfProbedInit /\ [][StateMachineNext]_vars

\* the runs of the sync workers on the enqueued syncs, between two iterations
MonitorSpec == MonitorInit /\ [][WorkerNext]_vars

WorkersSpec == WorkersInit /\ [][WorkerNext]_vars

\* the workers on an enqueued sync: a processor with a job takes its next
\* step, and every clock_status request ends, with an answer or an error
FairMonitorSpec ==
  /\ MonitorInit
  /\ [][WorkerNext]_vars
  /\ \A k \in Workers : WF_vars(PullSyncJob(k) \/ PostSyncRequest(k) \/ PollClock(k)
                                  \/ RecordReEnqueue(k))

\* Bull hands a waiting job to an idle processor and timers fire: every
\* handler that can take a step eventually takes one
FairSpec ==
  /\ Init
  /\ [][Next]_vars
  /\ WF_vars(StateMachineNext)
  /\ \A k \in Workers : WF_vars(PullSyncJob(k) \/ PostSyncRequest(k) \/ PollClock(k)
                                  \/ RecordReEnqueue(k))

\* ---------------------------------------------------------------------------
\* Properties
\* ---------------------------------------------------------------------------
\* the step is the part of an enqueueSync call up to its await of queue.add
EnqueueSyncCalled == last'.op \in {"dup", "added", "err"}

\* the waiting jobs of a queue with the fingerprint of x
PendingJobs(q, x) == {i \in 1..Len(waiting[q]) : Fingerprint(waiting[q][i]) = Fingerprint(x)}

\* C1: in every reachable state, whatever the interleaving of enqueueSync
\* calls and worker pulls, no sync queue holds two waiting jobs with the same
\* fingerprint (syncType, userWallet, secondaryEndpoint).
OnePendingJobPerFingerprint ==
  \A q \in SyncQueues : \A i \in 1..Len(waiting[q]) :
    Cardinality(PendingJobs(q, waiting[q][i])) = 1

FailedIterationAdvancesSlice ==
  [][(smPc # "delay" /\ smPc' = "delay" /\ smOutcome' = "failed")
       => currentModuloSlice' = (currentModuloSlice + 1) % ModuloBase]_vars

\* C4: currentModuloSlice is always in 0..23, and a step that ends an
\* iteration successfully moves it to (slice + 1) mod 24.
SliceAdvancesModulo ==
  /\ [](currentModuloSlice \in 0..(ModuloBase - 1))
  /\ [][(smPc # "delay" /\ smPc' = "delay" /\ smOutcome' = "ok")
          => currentModuloSlice' = (currentModuloSlice + 1) % ModuloBase]_vars

\* a successful iteration has taken the slice from 23 back to 0
SliceWrapped == smPc = "delay" /\ smOutcome = "ok" /\ currentModuloSlice = 0

\* C5: in a run in which the state machine keeps starting iterations, every
\* shard 0..23 is the current slice of an iteration again and again, even if
\* the iterations of some shard fail.
EveryShardSelectedAgain ==
  []<>(smPc = "plan")
    => \A s \in 0..(ModuloBase - 1) : []<>(smPc = "plan" /\ currentModuloSlice = s)

\* C6: issueSyncRequests calls enqueueSync for a potential sync request exactly
\* when the secondary's clock is missing or below this node's clock; it calls
\* it for no request whose clocks are equal (both 0 included) or whose
\* secondary is ahead.
RecurringSyncIffBehind ==
  [][\A i \in 1..Len(potentialSyncRequests) :
       LET r == potentialSyncRequests[i]
           handled == smPc' # "sync" \/ potentialSyncRequests'[i].status \notin {"todo", "skip"}
           enqueued == EnqueueSyncCalled /\ SameSync(last', Recurring, r.wallet, r.secondary)
       IN (smPc = "sync" /\ r.status \in {"todo", "skip"} /\ handled)
            => (enqueued <=> (r.secondaryClock = MissingClock
                               \/ r.primaryClock > r.secondaryClock))]_vars

\* C7: an enqueueSync for a fingerprint that directly follows the completed
\* enqueueSync of that fingerprint, which was fresh, returns the handle of the
\* first call, adds no job, and leaves the queues and the de-duplicator as
\* they are.
SecondEnqueueReturnsFirstHandle ==
  [][(EnqueueSyncCalled /\ last'.prev # 0)
       => /\ last'.op = "dup"
          /\ last'.id = last'.prev
          /\ UNCHANGED << waiting, syncDeDuplicator >>]_vars

\* the second of two enqueueSync calls in a row has returned the first handle
SecondEnqueueDeduplicated == last.op = "dup" /\ last.prev # 0 /\ last.id = last.prev

\* a worker is processing job j and no job of its fingerprint is waiting
PulledAndNotPending(k) ==
  /\ worker[k].pc \in {"post", "monitor"}
  /\ PendingJobs(k[1], worker[k].job) = {}

\* C8: once a worker has pulled the waiting job of a fingerprint, an
\* enqueueSync for that fingerprint whose queue.add succeeds puts a new job
\* with a new handle on the queue, also while the pulled job is still active.
EnqueueAfterPullAddsJob ==
  [][\A k \in Workers :
       LET j == worker[k].job
       IN (/\ PulledAndNotPending(k)
           /\ EnqueueSyncCalled
           /\ SameSync(last', ProcessorSyncType(k[1]), j.wallet, j.secondary)
           /\ last'.op # "err")
            => /\ last'.op = "added"
               /\ last'.id # j.id
               /\ PendingJobs(k[1], j)' # {}]_vars

\* C9: an enqueueSync that finds, when it records its job, that an overlapping
\* call for the same fingerprint has recorded first returns the handle the
\* de-duplicator holds, that of the winner.
LoserReturnsWinnersHandle ==
  (last.op = "recorded" /\ last.lost)
    => last.id = getDuplicateSyncJobInfo(syncDeDuplicator, last.syncType,
                                         last.wallet, last.secondary)

\* the members of the replica set a reconfiguration works on that are healthy
HealthyMembers ==
  {e \in Range(reconfig.current) : e # NoEndpoint /\ e \notin unhealthyPeers}

\* the clock value getClockValuesFromReplicaSet has answered for a survivor
SurvivorClock(e) ==
  reconfig.clocks[CHOOSE i \in 1..Len(reconfig.healthyReplicas) : reconfig.healthyReplicas[i] = e]

\* C10: whenever a member of the current replica set is healthy, the primary
\* of the new replica set is a healthy member, and one whose clock no other
\* survivor exceeds; with one healthy member, that member is the new primary.
NewPrimaryIsHealthiestSurvivor ==
  (reconfig.phase = "seeding" /\ HealthyMembers # {})
    => /\ reconfig.newReplicaSet[1] \in HealthyMembers
       /\ reconfig.clocks # <<>> =>
            \A e \in HealthyMembers :
              SurvivorClock(reconfig.newReplicaSet[1]) >= SurvivorClock(e)

\* the survivor that comes first in (primary, secondary1, secondary2)
FirstSurvivor ==
  reconfig.current[CHOOSE i \in 1..Len(reconfig.current) :
                     /\ reconfig.current[i] \in HealthyMembers
                     /\ \A j \in 1..(i - 1) : reconfig.current[j] \notin HealthyMembers]

\* the survivor that is not the first
OtherSurvivor == CHOOSE e \in HealthyMembers : e # FirstSurvivor

\* the survivor with the higher clock, the first one on a tie
HigherClockSurvivor ==
  IF SurvivorClock(FirstSurvivor) >= SurvivorClock(OtherSurvivor)
  THEN FirstSurvivor ELSE OtherSurvivor

\* the last updateReplicaSet call that succeeded
LastWrite(writes) == writes[Len(writes)]

\* C11: with exactly two healthy members, the new primary is the survivor with
\* the higher clock and, on a tie, the survivor that comes first in (primary,
\* secondary1, secondary2); the new first secondary is the other survivor; and
\* the replica set written to the registry is (new primary, other survivor, r0).
TwoHealthyKeepsBothSurvivors ==
  /\ []((reconfig.phase = "seeding" /\ Cardinality(HealthyMembers) = 2)
          => /\ reconfig.newReplicaSet[1] = HigherClockSurvivor
             /\ reconfig.newReplicaSet[2] \in HealthyMembers \ {HigherClockSurvivor}
             /\ SurvivorClock(reconfig.newReplicaSet[1])
                  >= SurvivorClock(reconfig.newReplicaSet[2])
             /\ reconfig.newReplicaSet[3] = NewPrimary)
  /\ [][(/\ Cardinality(HealthyMembers) = 2
         /\ ursmWrites' # ursmWrites
         /\ ursmWrites' # <<>>)
          => LastWrite(ursmWrites') =
               [user_id |-> reconfig.user_id,
                primary |-> endpointToSPIdMap(HigherClockSurvivor),
                secondaries |->
                  << endpointToSPIdMap(CHOOSE e \in HealthyMembers : e # HigherClockSurvivor),
                     endpointToSPIdMap(NewPrimary) >>]]_vars

\* the survivor listed second had the higher clock and was written to the
\* registry as primary, with the other survivor and r0 as secondaries
SecondSurvivorWrittenAsPrimary ==
  /\ unhealthyPeers = {PeerA}
  /\ ursmWrites # <<>>
  /\ LastWrite(ursmWrites) =
       [user_id |-> 1, primary |-> endpointToSPIdMap(PeerB),
        secondaries |-> << endpointToSPIdMap(Self), endpointToSPIdMap(NewPrimary) >>]

\* the step is an enqueueSync call of issueUpdateReplicaSetOp (a worker's
\* enqueueSync leaves the planner's locals alone)
SeedSyncCalled == smPc = "reconfig" /\ EnqueueSyncCalled /\ reconfig' # reconfig

\* the job the step has put at the tail of the queue of syncType t
AddedJob(t) == waiting'[QueueOf(t)][Len(waiting'[QueueOf(t)])]

\* the step has called enqueueSync for a Manual, immediate sync of the
\* reconfigured user from source to target
SeedSyncEnqueued(source, target) ==
  /\ SameSync(last', Manual, reconfig.wallet, target)
  /\ last'.op = "added" =>
       /\ Len(waiting'[ManualSyncQueue]) = Len(waiting[ManualSyncQueue]) + 1
       /\ AddedJob(Manual) = Job(last'.id, Manual, reconfig.wallet, source, target, TRUE)

\* the step is an updateReplicaSet call that succeeded
ReplicaSetWritten == ursmWrites' # ursmWrites /\ ursmWrites' # <<>>

PrimaryWithOneUnhealthySecondary ==
  /\ reconfig.phase = "seeding"
  /\ reconfig.current[1] = Self
  /\ reconfig.current[2] # NoEndpoint /\ reconfig.current[3] # NoEndpoint
  /\ Cardinality({reconfig.current[2], reconfig.current[3]} \cap unhealthyPeers) = 1

\* C13: when this node is the primary and exactly one secondary is unhealthy,
\* the planner's only enqueueSync call is a Manual, immediate sync from this
\* node to the newly selected node, and its one registry write names this node
\* as primary.
PrimarySeedsOnlyNewNode ==
  [][PrimaryWithOneUnhealthySecondary
       => /\ SeedSyncCalled =>
               /\ reconfig.called = 0
               /\ SeedSyncEnqueued(Self, NewPrimary)
          /\ ReplicaSetWritten =>
               /\ ursmWrites = <<>>
               /\ LastWrite(ursmWrites').primary = endpointToSPIdMap(Self)]_vars

\* C13, as the code has it: when this node is the primary and exactly one
\* secondary is unhealthy, the planner calls enqueueSync twice, both Manual
\* and immediate with the survivor of the higher clock as source (this node
\* unless the healthy secondary is ahead), first to the other survivor, then
\* to the newly selected node; its one registry write follows both calls and
\* names that survivor as primary.
TwoSeedsFromNewPrimary ==
  [][PrimaryWithOneUnhealthySecondary
       => LET np == HigherClockSurvivor
              ns == CHOOSE e \in HealthyMembers : e # np
          IN /\ SurvivorClock(Self) >= SurvivorClock(OtherSurvivor) => np = Self
             /\ SeedSyncCalled =>
                  /\ reconfig.called \in {0, 1}
                  /\ reconfig.called = 0 => SeedSyncEnqueued(np, ns)
                  /\ reconfig.called = 1 => SeedSyncEnqueued(np, NewPrimary)
             /\ ReplicaSetWritten =>
                  /\ reconfig.called = 2
                  /\ ursmWrites = <<>>
                  /\ LastWrite(ursmWrites').primary = endpointToSPIdMap(np)]_vars

\* this node, the primary, has enqueued a seed sync to the healthy secondary
\* and one to the new node, and has written itself as primary
PrimaryWroteItselfAfterTwoSeeds ==
  /\ discoveryUsers[1].primary = Self
  /\ ursmWrites =
       << [user_id |-> 1, primary |-> endpointToSPIdMap(Self),
           secondaries |-> << endpointToSPIdMap(PeerB), endpointToSPIdMap(NewPrimary) >>] >>
  /\ waiting[ManualSyncQueue] =
       << Job(1, Manual, "w3", Self, PeerB, TRUE),
          Job(1, Manual, "w3", Self, NewPrimary, TRUE) >>

\* no replica of user u is unhealthy
AllReplicasHealthy(u) ==
  {u.primary, u.secondary1, u.secondary2} \cap unhealthyPeers = {}

\* C14: for a user all of whose replicas are healthy, no step writes a
\* replica set of the user to the registry and no step calls enqueueSync for a
\* Manual sync of the user's wallet.
HealthyUserIsLeftAlone ==
  [][\A i \in 1..Len(discoveryUsers) :
       LET u == discoveryUsers[i]
       IN AllReplicasHealthy(u)
            => /\ ~(ReplicaSetWritten /\ LastWrite(ursmWrites').user_id = u.user_id)
               /\ ~(EnqueueSyncCalled /\ last'.syncType = Manual /\ last'.wallet = u.wallet)]_vars

\* the iteration of the slice of a user whose replicas are all healthy has
\* run issueUpdateReplicaSetOp for the user and ended: nothing is written and
\* no Manual sync waits
HealthyUserIterationDone ==
  /\ AllReplicasHealthy(discoveryUsers[1])
  /\ smPc = "delay" /\ smOutcome = "ok"
  /\ currentModuloSlice = (discoveryUsers[1].user_id + 1) % ModuloBase
  /\ ursmWrites = <<>>
  /\ waiting[ManualSyncQueue] = <<>>

\* the step ends the issueUpdateReplicaSetOp call of the first user of
\* requiredUpdateReplicaSetOps
PlannerEnded ==
  /\ smPc = "reconfig"
  /\ requiredUpdateReplicaSetOps' # requiredUpdateReplicaSetOps \/ smPc' # "reconfig"

\* C15: a step that ends the planner for a user without a registry write
\* (autoSelectCreatorNodes, the clock fetch, a seed enqueueSync or
\* updateReplicaSet has thrown) does not end the iteration: the remaining
\* users of requiredUpdateReplicaSetOps are kept, with the planner about to
\* start for the next of them, and after the last user the iteration ends
\* without error and the slice advances.
PlannerFailureIsContained ==
  [][(PlannerEnded /\ ~ReplicaSetWritten)
       => IF Len(requiredUpdateReplicaSetOps) > 1
          THEN /\ requiredUpdateReplicaSetOps' = Tail(requiredUpdateReplicaSetOps)
               /\ smPc' = "reconfig"
               /\ reconfig' = NoReconfig
               /\ currentModuloSlice' = currentModuloSlice
          ELSE /\ smPc' = "delay"
               /\ smOutcome' = "ok"
               /\ currentModuloSlice' = (currentModuloSlice + 1) % ModuloBase]_vars

\* the planner failed for the first user of the slice, wrote the replica set
\* of the second, and the iteration ended without error on the next slice
SecondUserWrittenAfterFirstFailed ==
  /\ Len(discoveryUsers) = 2
  /\ smPc = "delay" /\ smOutcome = "ok"
  /\ currentModuloSlice = 2
  /\ Len(ursmWrites) = 1
  /\ ursmWrites[1].user_id = discoveryUsers[2].user_id

\* C16: a step in which getNodeUsers, getUnhealthyPeers or a batched clock
\* request of the iteration fails ends the iteration: it calls enqueueSync for
\* no sync, leaves both queues, the de-duplicator and the registry as they
\* are, and leaves no potential sync request and no reconfig op behind; an
\* iteration that has ended holds none of them, so none is issued later.
FetchFailureEndsIteration ==
  /\ [][(smPc = "plan" /\ smOutcome' = "failed")
          => /\ smPc' = "delay"
             /\ ~EnqueueSyncCalled
             /\ UNCHANGED << waiting, syncDeDuplicator, ursmWrites, reconfigsDone >>]_vars
  /\ [](smOutcome = "failed"
          => /\ smPc \in {"delay", "added"}
             /\ potentialSyncRequests = <<>>
             /\ requiredUpdateReplicaSetOps = <<>>
             /\ reconfig = NoReconfig)

\* the iteration of the slice of a user with an unhealthy primary has failed
\* at the data fetch: the planner has not run and nothing is enqueued
FetchFailedBeforePlanner ==
  /\ unhealthyPeers = {PeerA}
  /\ discoveryUsers[1].user_id % ModuloBase = currentModuloSlice
  /\ smPc = "delay" /\ smOutcome = "failed"
  /\ reconfigsDone = 0
  /\ ursmWrites = <<>>
  /\ \A q \in SyncQueues : waiting[q] = <<>>

\* the step is a clock poll of worker k's monitor
Polled(k) == worker[k].pc = "monitor" /\ polled'.k = k

\* the monitor of worker k has returned false: the job ends with no successor
ReturnedNoSyncRequired(k) == worker'[k].pc = "idle" /\ ~EnqueueSyncCalled

\* the monitor of worker k has returned true: the worker calls enqueueSync
ReturnedSyncRequired(k) == worker'[k].pc \in {"idle", "requeue"} /\ EnqueueSyncCalled

\* the monitoring window has ended once the poll and the retry delay are over
DeadlinePassed(k) == worker[k].elapsed + 1 + pollLatency >= MaxPolls

\* C17: the monitor returns `no additional sync required` only on a sample
\* S >= P, and does so on every such sample (S = P included); on a sample
\* with S + MaxExportClockValueRange < P it stops polling and returns
\* `additional sync required`; on any other sample it polls again after the
\* retry delay, while the monitoring window lasts.
MonitorFollowsSamples ==
  [][\A k \in Workers :
       Polled(k)
         => LET P == worker[k].clock
                S == polled'.clockValue
            IN /\ ReturnedNoSyncRequired(k) <=> (polled'.ok /\ S >= P)
               /\ (polled'.ok /\ S + MaxExportClockValueRange < P) => ReturnedSyncRequired(k)
               /\ (polled'.ok /\ S < P /\ S + MaxExportClockValueRange >= P /\ ~DeadlinePassed(k))
                    => /\ worker'[k].pc = "monitor"
                       /\ worker'[k].elapsed > worker[k].elapsed]_vars

\* a worker still monitors after a sample below the primary's clock but
\* within MaxExportClockValueRange of it
PollsAgainAfterSampleInRange ==
  \E k \in Workers :
    /\ worker[k].pc = "monitor"
    /\ worker[k].elapsed > 0
    /\ polled.k = k /\ polled.ok
    /\ polled.clockValue < worker[k].clock
    /\ polled.clockValue + MaxExportClockValueRange >= worker[k].clock

\* C18: a clock poll that fails with a transport error does not end the
\* monitoring: while the window lasts the worker polls again one retry delay
\* after the failed poll; and a poll after which the window has ended, and
\* which has not brought a sample S >= P, makes the monitor return
\* `additional sync required`.
PollErrorKeepsMonitoring ==
  [][\A k \in Workers :
       Polled(k)
         => /\ (~polled'.ok /\ ~DeadlinePassed(k))
                 => /\ worker'[k].pc = "monitor"
                    /\ worker'[k].job = worker[k].job
                    /\ worker'[k].clock = worker[k].clock
                    /\ worker'[k].elapsed = worker[k].elapsed + pollLatency + 1
                    /\ ~EnqueueSyncCalled
            /\ (DeadlinePassed(k) /\ ~(polled'.ok /\ polled'.clockValue >= worker[k].clock))
                 => ReturnedSyncRequired(k)]_vars

\* a worker still monitors after a poll that failed
PollsAgainAfterPollError ==
  \E k \in Workers :
    /\ worker[k].pc = "monitor"
    /\ worker[k].elapsed > 0
    /\ polled.k = k /\ ~polled.ok

\* what the monitor of worker k returns on the poll of this step, by the
\* sample and the time: TRUE for `additional sync required`
MonitorReturnsSyncRequired(k) ==
  \/ polled'.ok /\ polled'.clockValue + MaxExportClockValueRange < worker[k].clock
  \/ DeadlinePassed(k) /\ ~(polled'.ok /\ polled'.clockValue >= worker[k].clock)

\* C19: a worker calls enqueueSync only on a poll of its monitor, after the
\* POST of the sync, and exactly when the monitor returns `additional sync
\* required`. The call is for the kind, wallet and target of the worker's job
\* and goes through the de-duplicator: with an entry for the fingerprint it
\* returns the entry's handle and adds no job; without one the successor, with
\* immediate = false, goes to the tail of the queue of its kind.
SuccessorIffSyncRequired ==
  [][\A k \in Workers :
       LET j == worker[k].job
           t == j.syncType
           dup == getDuplicateSyncJobInfo(syncDeDuplicator, t, j.wallet, j.secondary)
       IN /\ Polled(k) => (EnqueueSyncCalled <=> MonitorReturnsSyncRequired(k))
          /\ (worker'[k] # worker[k] /\ ~Polled(k)) => ~EnqueueSyncCalled
          /\ (Polled(k) /\ EnqueueSyncCalled)
               => /\ SameSync(last', t, j.wallet, j.secondary)
                  /\ last'.op = "dup" <=> dup # 0
                  /\ last'.op = "dup" => last'.id = dup /\ UNCHANGED waiting
                  /\ last'.op = "err" => UNCHANGED waiting
                  /\ last'.op = "added"
                       => /\ waiting' = [waiting EXCEPT ![QueueOf(t)] = Append(@, AddedJob(t))]
                          /\ Fingerprint(AddedJob(t)) = Fingerprint(j)
                          /\ AddedJob(t).id = last'.id
                          /\ AddedJob(t).immediate = FALSE]_vars

\* the successor of an immediate seed sync is on the manual queue, with
\* immediate = false
SuccessorOfSeedSyncAdded ==
  \E k \in Workers :
    /\ worker[k].pc = "requeue"
    /\ worker[k].job.immediate
    /\ worker[k].job.syncType = Manual
    /\ Fingerprint(worker[k].enq) = Fingerprint(worker[k].job)
    /\ ~worker[k].enq.immediate
    /\ \E i \in 1..Len(waiting[ManualSyncQueue]) : waiting[ManualSyncQueue][i] = worker[k].enq

\* the jobs of queue q that are being processed
ActiveJobs(q) == {k \in Workers : k[1] = q /\ worker[k].pc # "idle"}

\* C20: the manual queue never has more than
\* maxManualRequestSyncJobConcurrency active jobs, the recurring queue never
\* more than maxRecurringRequestSyncJobConcurrency; and a queue with a waiting
\* job and fewer active jobs than its setting can activate the job, whatever
\* the other queue's workers are doing.
SyncPoolsAreBoundedAndSeparate ==
  /\ Cardinality(ActiveJobs(ManualSyncQueue)) <= MaxManualRequestSyncJobConcurrency
  /\ Cardinality(ActiveJobs(RecurringSyncQueue)) <= MaxRecurringRequestSyncJobConcurrency
  /\ \A q \in SyncQueues :
       (/\ waiting[q] # <<>>
        /\ Cardinality(ActiveJobs(q)) <
             (IF q = ManualSyncQueue THEN MaxManualRequestSyncJobConcurrency
                                     ELSE MaxRecurringRequestSyncJobConcurrency))
         => ENABLED (\E k \in Workers : k[1] = q /\ PullSyncJob(k))

\* every recurring worker is busy monitoring, and the manual queue has just
\* activated a job while another one waits
ManualActivatedWhileRecurringSaturated ==
  /\ Cardinality(ActiveJobs(RecurringSyncQueue)) = MaxRecurringRequestSyncJobConcurrency
  /\ \A k \in ActiveJobs(RecurringSyncQueue) : worker[k].pc = "monitor"
  /\ \E k \in ActiveJobs(ManualSyncQueue) : worker[k].pc = "post"
  /\ waiting[ManualSyncQueue] # <<>>

\* the state the workers start from in WorkersSpec, as a state of the whole
\* program
WorkersInitReached ==
  /\ waiting = SyncsOfPrimaryScenario
  /\ \A k \in Workers : worker[k] = IdleWorker
  /\ Cardinality(syncDeDuplicator) = 3
  /\ smPc = "idle" /\ smWaiting = 1 /\ smActive = 0 /\ smOutcome = "none"
  /\ currentModuloSlice = 2 /\ reconfigsDone = 1
  /\ potentialSyncRequests = <<>> /\ requiredUpdateReplicaSetOps = <<>>
  /\ reconfig = NoReconfig /\ ursmWrites = <<>>
  /\ last = NoEvent /\ polled = NoPoll

\* the state the workers start from in MonitorSpec, as a state of the whole
\* program
MonitorInitReached ==
  /\ waiting = RecurringSyncOfPrimaryScenario
  /\ \A k \in Workers : worker[k] = IdleWorker
  /\ Cardinality(syncDeDuplicator) = 1
  /\ smPc = "idle" /\ smWaiting = 1 /\ smActive = 0 /\ smOutcome = "none"
  /\ currentModuloSlice = 2 /\ reconfigsDone = 1
  /\ potentialSyncRequests = <<>> /\ requiredUpdateReplicaSetOps = <<>>
  /\ reconfig = NoReconfig /\ ursmWrites = <<>>
  /\ last = NoEvent /\ polled = NoPoll

\* the users of the run with this wallet
UsersOfWallet(w) == {u \in Range(discoveryUsers) : u.wallet = w}

\* the users of the run that belong to the current slice
UsersOfCurrentSlice ==
  {u \in Range(discoveryUsers) : u.user_id % ModuloBase = currentModuloSlice}

\* the step is the planning of an iteration that has fetched its data
Planned == smPc = "plan" /\ smPc' \in {"sync", "reconfig"}

\* the step is an enqueueSync call of the iteration itself (a worker's call
\* leaves the iteration's locals alone)
LoopEnqueueSyncCalled ==
  /\ EnqueueSyncCalled
  /\ \/ smPc = "sync" /\ potentialSyncRequests' # potentialSyncRequests
     \/ SeedSyncCalled

\* the slices in which sliceUsers selects user u
SlicesOf(u) ==
  {s \in 0..(ModuloBase - 1) : u \in Range(sliceUsers(discoveryUsers, s))}

\* C21: the potential sync requests and the reconfig ops an iteration builds
\* are those of the users with user_id mod 24 = currentModuloSlice, and every
\* such user gets a reconfig op; the iteration's enqueueSync calls and registry
\* writes are for these users only. Every user is selected in exactly one of
\* the slices 0..23, and a successful iteration moves the slice on by one
\* (mod 24): 24 successful iterations in a row take every user exactly once.
IterationProcessesItsSliceOnly ==
  /\ [][Planned
          => /\ \A i \in 1..Len(potentialSyncRequests') :
                  UsersOfWallet(potentialSyncRequests'[i].wallet) \subseteq UsersOfCurrentSlice
             /\ {op.user_id : op \in Range(requiredUpdateReplicaSetOps')}
                  = {u.user_id : u \in UsersOfCurrentSlice}
             /\ Len(requiredUpdateReplicaSetOps') = Cardinality(UsersOfCurrentSlice)]_vars
  /\ [][LoopEnqueueSyncCalled
          => UsersOfWallet(last'.wallet) \subseteq UsersOfCurrentSlice]_vars
  /\ [][ReplicaSetWritten
          => LastWrite(ursmWrites').user_id % ModuloBase = currentModuloSlice]_vars
  /\ [](\A u \in Range(discoveryUsers) : Cardinality(SlicesOf(u)) = 1)
  /\ [][(smPc # "delay" /\ smPc' = "delay" /\ smOutcome' = "ok")
          => currentModuloSlice' = (currentModuloSlice + 1) % ModuloBase]_vars

\* the iteration of slice 0 has planned the one user of slice 0 while the
\* recurring sync of a user of slice 1, enqueued by an earlier iteration, still
\* waits: the slices in between have been gone through
SliceZeroPlannedAfterSliceOne ==
  /\ currentModuloSlice = 0
  /\ smPc = "sync"
  /\ Len(discoveryUsers) = 3
  /\ {op.user_id : op \in Range(requiredUpdateReplicaSetOps)} = {24}
  /\ {r.wallet : r \in Range(potentialSyncRequests)} = {"w1"}
  /\ \E i \in 1..Len(waiting[RecurringSyncQueue]) :
       waiting[RecurringSyncQueue][i].wallet = "w3"

\* C22: on a node with isUserMetadataNode = true no state-machine job is ever
\* added or started and no iteration runs; no worker ever takes a sync job,
\* also when enqueueSync has put one on a queue: no handler can take a step.
UserMetadataNodeRunsNothing ==
  isUserMetadataNode
    => /\ smWaiting = 0 /\ smActive = 0 /\ smPc = "idle" /\ smOutcome = "none"
       /\ \A k \in Workers : worker[k] = IdleWorker
       /\ ~ENABLED StateMachineNext
       /\ ~ENABLED WorkerNext

\* a Manual sync waits on a user-metadata node, where every worker is idle
SyncWaitsOnUserMetadataNode ==
  /\ isUserMetadataNode
  /\ waiting[ManualSyncQueue] # <<>>
  /\ \A k \in Workers : worker[k].pc = "idle"

\* the reconfig ops the step has built for user u
OpsOf(u) ==
  {i \in 1..Len(requiredUpdateReplicaSetOps') :
     requiredUpdateReplicaSetOps'[i].user_id = u.user_id}

\* the potential sync requests the step has built for user u and secondary e
PotentialSyncsOf(u, e) ==
  {i \in 1..Len(potentialSyncRequests') :
     /\ potentialSyncRequests'[i].wallet = u.wallet
     /\ potentialSyncRequests'[i].secondary = e}

\* the step is an enqueueSync call of issueSyncRequests
RecurringSyncCalled ==
  smPc = "sync" /\ EnqueueSyncCalled /\ potentialSyncRequests' # potentialSyncRequests

\* C23: for a user of the slice whose primary is this node, the planning
\* records each non-empty secondary in exactly one place: in the user's
\* unhealthyReplicas if getUnhealthyPeers has named it, as one potential sync
\* request otherwise; and every enqueueSync call of issueSyncRequests is for a
\* Recurring sync to a secondary that is not among the unhealthy peers.
SecondaryIsUnhealthyOrSynced ==
  /\ [][Planned
          => \A u \in UsersOfCurrentSlice :
               u.primary = Self
                 => \A e \in {u.secondary1, u.secondary2} \ {NoEndpoint} :
                      LET recorded ==
                            \E i \in OpsOf(u) :
                              e \in Range(requiredUpdateReplicaSetOps'[i].unhealthyReplicas)
                      IN /\ recorded <=> e \in unhealthyPeers
                         /\ Cardinality(PotentialSyncsOf(u, e))
                              = (IF e \in unhealthyPeers THEN 0 ELSE 1)]_vars
  /\ [][RecurringSyncCalled
          => /\ last'.syncType = Recurring
             /\ last'.secondary \notin unhealthyPeers]_vars

\* the iteration has planned the user this node is the primary of: the
\* unhealthy secondary A is in unhealthyReplicas, the one potential sync
\* request is for the healthy secondary B
UnhealthySecondaryRecordedHealthySynced ==
  /\ smPc = "sync"
  /\ unhealthyPeers = {PeerA}
  /\ \E i \in 1..Len(requiredUpdateReplicaSetOps) :
       /\ requiredUpdateReplicaSetOps[i].wallet = "w3"
       /\ requiredUpdateReplicaSetOps[i].unhealthyReplicas = << PeerA >>
  /\ \A i \in 1..Len(potentialSyncRequests) :
       /\ potentialSyncRequests[i].wallet = "w3"
       /\ potentialSyncRequests[i].secondary = PeerB

\* the replicas of user u other than this node and the absent slots
OtherReplicas(u) == {u.primary, u.secondary1, u.secondary2} \ {Self, NoEndpoint}

\* C24: for a user of the slice whose primary is another node, the planning
\* builds no potential sync request and exactly one reconfig op, whose
\* unhealthyReplicas are the user's other replicas that getUnhealthyPeers has
\* named; and no enqueueSync call of issueSyncRequests is for a wallet of such a
\* user.
SecondaryUserGetsReconfigOpOnly ==
  /\ [][Planned
          => \A u \in UsersOfCurrentSlice :
               u.primary # Self
                 => /\ \A i \in 1..Len(potentialSyncRequests') :
                         potentialSyncRequests'[i].wallet # u.wallet
                    /\ Cardinality(OpsOf(u)) = 1
                    /\ \A i \in OpsOf(u) :
                         Range(requiredUpdateReplicaSetOps'[i].unhealthyReplicas)
                           = OtherReplicas(u) \cap unhealthyPeers]_vars
  /\ [][RecurringSyncCalled
          => \A u \in UsersOfWallet(last'.wallet) : u.primary = Self]_vars

\* the iteration of slice 1 has issued the Recurring sync of the user this
\* node is the primary of and none for the user it is a secondary of, and the
\* planner works on the latter with the unhealthy primary A recorded
SecondaryUserReconfiguredWithoutSync ==
  /\ smPc = "reconfig"
  /\ reconfig.phase = "seeding"
  /\ reconfig.wallet = "w2"
  /\ reconfig.unhealthyReplicas = {PeerA}
  /\ waiting[RecurringSyncQueue] # <<>>
  /\ \A i \in 1..Len(waiting[RecurringSyncQueue]) :
       waiting[RecurringSyncQueue][i].wallet # "w2"

\* C25: the planning never records an absent secondary slot in a user's
\* unhealthyReplicas and never builds a potential sync request for it; no
\* enqueueSync call of issueSyncRequests names it as target, and no waiting
\* Recurring job has it as its secondary.
AbsentSlotIsNoPeer ==
  /\ [][Planned
          => /\ \A i \in 1..Len(requiredUpdateReplicaSetOps') :
                  NoEndpoint \notin Range(requiredUpdateReplicaSetOps'[i].unhealthyReplicas)
             /\ \A i \in 1..Len(potentialSyncRequests') :
                  potentialSyncRequests'[i].secondary # NoEndpoint]_vars
  /\ [][RecurringSyncCalled => last'.secondary # NoEndpoint]_vars
  /\ [](\A i \in 1..Len(waiting[RecurringSyncQueue]) :
          waiting[RecurringSyncQueue][i].secondary # NoEndpoint)

\* the iteration of slice 0 has planned the user with one secondary: one
\* potential sync request, to that secondary, and nothing recorded as unhealthy
IncompleteReplicaSetPlanned ==
  /\ smPc = "sync"
  /\ Len(requiredUpdateReplicaSetOps) = 1
  /\ requiredUpdateReplicaSetOps[1].secondary2 = NoEndpoint
  /\ requiredUpdateReplicaSetOps[1].unhealthyReplicas = <<>>
  /\ Len(potentialSyncRequests) = 1
  /\ potentialSyncRequests[1].secondary = requiredUpdateReplicaSetOps[1].secondary1

\* C26: with exactly two healthy members, the planner's enqueueSync calls are
\* at most two, both for Manual syncs with immediate = true and the new
\* primary (the survivor with the higher clock) as source: the first to the
\* other survivor, the second to r0; the registry write follows exactly two
\* calls.
TwoHealthySeedsComeFromNewPrimary ==
  [][Cardinality(HealthyMembers) = 2
       => LET np == HigherClockSurvivor
              ns == CHOOSE e \in HealthyMembers : e # np
          IN /\ SeedSyncCalled =>
                  /\ last'.syncType = Manual
                  /\ reconfig.called \in {0, 1}
                  /\ reconfig.called = 0 => SeedSyncEnqueued(np, ns)
                  /\ reconfig.called = 1 => SeedSyncEnqueued(np, NewPrimary)
             /\ ReplicaSetWritten => reconfig.called = 2
             /\ PlannerEnded => reconfig.called <= 2]_vars

\* this node, a secondary with the unhealthy primary A, had the higher clock:
\* its seed syncs to the other survivor B and to r0 wait on the manual queue,
\* and it has been written as primary
BothSeedsOfSecondaryEnqueued ==
  /\ unhealthyPeers = {PeerA}
  /\ waiting[ManualSyncQueue] =
       << Job(1, Manual, "w2", Self, PeerB, TRUE),
          Job(1, Manual, "w2", Self, NewPrimary, TRUE) >>
  /\ ursmWrites # <<>>
  /\ LastWrite(ursmWrites).user_id = 1
  /\ LastWrite(ursmWrites).primary = endpointToSPIdMap(Self)

\* C27: when no member of the current replica set is healthy, the planner's
\* enqueueSync calls are, in this order, p -> r0, p -> r1 and p -> r2, with p
\* the old primary, all Manual with immediate = true and never a fourth; the
\* registry write follows exactly three calls and names (r0, r1, r2).
NoneHealthySeedsWholeNewReplicaSet ==
  [][(reconfig.phase = "seeding" /\ HealthyMembers = {})
       => LET p == reconfig.current[1]
          IN /\ SeedSyncCalled =>
                  /\ last'.syncType = Manual
                  /\ reconfig.called \in {0, 1, 2}
                  /\ reconfig.called = 0 => SeedSyncEnqueued(p, NewPrimary)
                  /\ reconfig.called = 1 => SeedSyncEnqueued(p, NewSecondary1)
                  /\ reconfig.called = 2 => SeedSyncEnqueued(p, NewSecondary2)
             /\ ReplicaSetWritten =>
                  /\ reconfig.called = 3
                  /\ LastWrite(ursmWrites') =
                       [user_id |-> reconfig.user_id,
                        primary |-> endpointToSPIdMap(NewPrimary),
                        secondaries |-> << endpointToSPIdMap(NewSecondary1),
                                           endpointToSPIdMap(NewSecondary2) >>]
             /\ PlannerEnded => reconfig.called <= 3]_vars

\* the replica set (r0, r1, r2) has been written for the user whose replicas
\* are all unhealthy, and the third seed sync, from the old primary A to r2,
\* waits on the manual queue
WholeReplicaSetReplaced ==
  /\ unhealthyPeers = {PeerA, PeerB, PeerC}
  /\ ursmWrites =
       << [user_id |-> 1, primary |-> endpointToSPIdMap(NewPrimary),
           secondaries |-> << endpointToSPIdMap(NewSecondary1),
                              endpointToSPIdMap(NewSecondary2) >>] >>
  /\ \E i \in 1..Len(waiting[ManualSyncQueue]) :
       /\ waiting[ManualSyncQueue][i].primary = PeerA
       /\ waiting[ManualSyncQueue][i].secondary = NewSecondary2
       /\ waiting[ManualSyncQueue][i].immediate

\* the step is the return of issueSyncRequests to the iteration
SyncRequestsReturned == smPc = "sync" /\ smPc' # "sync"

\* C28: once issueSyncRequests has returned, the iteration ends with an error,
\* before any reconfiguration, exactly when the sync requests that failed are
\* more than those issued; otherwise (with no error and none issued too) it goes
\* on to the reconfigurations with every reconfig op kept.
AbortsIffMoreErrorsThanIssued ==
  [][SyncRequestsReturned
       => LET errors == Count(potentialSyncRequests, "err")
              issued == Count(potentialSyncRequests, "issued")
          IN /\ smOutcome' = "failed" <=> errors > issued
             /\ errors > issued
                  => /\ smPc' = "delay"
                     /\ requiredUpdateReplicaSetOps' = <<>>
                     /\ UNCHANGED << currentModuloSlice, reconfigsDone, ursmWrites >>
             /\ errors <= issued
                  => /\ smPc' = "reconfig"
                     /\ requiredUpdateReplicaSetOps' = requiredUpdateReplicaSetOps
                     /\ requiredUpdateReplicaSetOps # <<>>]_vars

\* issueSyncRequests is about to return with one sync issued and one failed
OneSyncIssuedOneFailed ==
  /\ smPc = "sync"
  /\ Len(potentialSyncRequests) = 2
  /\ Count(potentialSyncRequests, "err") = 1
  /\ Count(potentialSyncRequests, "issued") = 1

\* C29: once issueSyncRequests has returned with a sync request whose
\* enqueueSync has failed, the iteration ends with an error and goes on to no
\* reconfiguration.
EnqueueFailureAbortsIteration ==
  [][(SyncRequestsReturned /\ Count(potentialSyncRequests, "err") > 0)
       => /\ smOutcome' = "failed"
          /\ smPc' = "delay"
          /\ requiredUpdateReplicaSetOps' = <<>>]_vars

SameTripleRecorded ==
  \E e \in syncDeDuplicator :
    e.syncType = last'.syncType /\ e.wallet = last'.wallet /\ e.secondary = last'.secondary

\* every waiting job is on the queue of its syncType and every job a
\* processor runs is of the syncType the processor hands down
JobsOnQueueOfTheirKind ==
  /\ \A q \in SyncQueues : \A i \in 1..Len(waiting[q]) : QueueOf(waiting[q][i].syncType) = q
  /\ \A k \in Workers :
       worker[k].job # NoJob =>
         /\ QueueOf(worker[k].job.syncType) = k[1]
         /\ ProcessorSyncType(k[1]) = worker[k].job.syncType

\* C31: an enqueueSync call is answered with a duplicate exactly when the
\* de-duplicator holds an entry with the identical (syncType, wallet, target),
\* so an entry of the other kind for the same wallet and target never
\* suppresses it; every job waits on, and is run by the processor of, the
\* queue of its own syncType.
DeDuplicationKeyedOnFullTriple ==
  /\ []JobsOnQueueOfTheirKind
  /\ [][EnqueueSyncCalled => (last'.op = "dup" <=> SameTripleRecorded)]_vars

\* a Recurring sync has been added for a wallet and target for which a Manual
\* job is waiting and recorded
RecurringAddedWhileManualPending ==
  /\ last.op = "added" /\ last.syncType = Recurring
  /\ \E i \in 1..Len(waiting[ManualSyncQueue]) :
       /\ waiting[ManualSyncQueue][i].wallet = last.wallet
       /\ waiting[ManualSyncQueue][i].secondary = last.secondary
  /\ \E e \in syncDeDuplicator :
       e.syncType = Manual /\ e.wallet = last.wallet /\ e.secondary = last.secondary
  /\ \E i \in 1..Len(waiting[RecurringSyncQueue]) :
       /\ waiting[RecurringSyncQueue][i].id = last.id
       /\ Fingerprint(waiting[RecurringSyncQueue][i]) = Fingerprint(last)

\* the sync workers with Bull's scheduling: a processor with a job takes its
\* next step and an idle processor takes a waiting job of its queue
FairWorkersSpec ==
  /\ WorkersInit
  /\ [][WorkerNext]_vars
  /\ \A k \in Workers : WF_vars(PullSyncJob(k) \/ PostSyncRequest(k) \/ PollClock(k)
                                  \/ RecordReEnqueue(k))

\* the step leaves queue q alone, hands its first job to an idle processor
\* of q, or puts the job of an enqueueSync call at its tail
QueueStepIsFifo(q) ==
  \/ waiting'[q] = waiting[q]
  \/ /\ waiting[q] # <<>>
     /\ waiting'[q] = Tail(waiting[q])
     /\ \E k \in Workers :
          k[1] = q /\ worker[k].pc = "idle" /\ worker'[k].job = Head(waiting[q])
  \/ /\ last'.op = "added"
     /\ Len(waiting'[q]) = Len(waiting[q]) + 1
     /\ SubSeq(waiting'[q], 1, Len(waiting[q])) = waiting[q]
     /\ waiting'[q][Len(waiting'[q])].id = last'.id

\* the fingerprints of the syncs the workers start with
WaitingFingerprints ==
  {Fingerprint(j) : j \in UNION {Range(SyncsOfPrimaryScenario[q]) : q \in SyncQueues}}

\* a job of fingerprint f waits
IsPending(f) ==
  \E i \in 1..Len(waiting[QueueOf(f.syncType)]) :
    Fingerprint(waiting[QueueOf(f.syncType)][i]) = f

\* a processor of the queue of f runs a job of fingerprint f
IsActive(f) ==
  \E k \in Workers :
    k[1] = QueueOf(f.syncType) /\ worker[k].job # NoJob /\ Fingerprint(worker[k].job) = f

\* C32: each sync queue hands out its jobs first in, first out and a
\* re-enqueued successor is put at the tail; with fair processors every
\* waiting job is eventually taken by a processor, whatever happens to the
\* syncs of the other fingerprints, which may fail and be re-enqueued forever.
QueuesAreFifoAndStarveNoJob ==
  /\ [][\A q \in SyncQueues : QueueStepIsFifo(q)]_vars
  /\ \A f \in WaitingFingerprints : IsPending(f) ~> IsActive(f)

\* the seed sync to the new node runs while the successor of the sync that
\* was enqueued before it waits behind
SuccessorWaitsBehindLaterJob ==
  \E k \in Workers :
    /\ k[1] = ManualSyncQueue
    /\ worker[k].job.secondary = NewPrimary /\ worker[k].job.immediate
    /\ Len(waiting[ManualSyncQueue]) = 1
    /\ waiting[ManualSyncQueue][1].secondary = PeerB
    /\ ~waiting[ManualSyncQueue][1].immediate

\* a call of issueUpdateReplicaSetOp has passed its first awaits and has not
\* returned
PlannerRunning == reconfig.phase = "seeding"

\* the step is the start of a call of issueUpdateReplicaSetOp
PlannerStarted == smPc = "reconfig" /\ reconfig.phase = "none" /\ reconfig' # reconfig

\* the users of the current slice in the order of the list getNodeUsers gave
SliceUserIds ==
  LET users == sliceUsers(discoveryUsers, currentModuloSlice)
  IN [i \in 1..Len(users) |-> users[i].user_id]

\* the users the loop over requiredUpdateReplicaSetOps has not finished
RemainingUserIds ==
  [i \in 1..Len(requiredUpdateReplicaSetOps) |-> requiredUpdateReplicaSetOps[i].user_id]

\* s is the end of t
IsSuffix(s, t) ==
  Len(s) <= Len(t) /\ s = SubSeq(t, Len(t) - Len(s) + 1, Len(t))

\* C33: the planner runs for one user of requiredUpdateReplicaSetOps at a
\* time, in list order: the running call is that of the first user the loop
\* has not finished, every seed enqueueSync and every registry write is that
\* user's, a call starts only when no other call is running, and the loop
\* moves to the next user only on a step that ends the running call.
PlannerRunsOneUserAtATimeInOrder ==
  /\ [](smPc = "reconfig" => IsSuffix(RemainingUserIds, SliceUserIds))
  /\ [](PlannerRunning =>
          /\ smPc = "reconfig"
          /\ requiredUpdateReplicaSetOps # <<>>
          /\ reconfig.user_id = Head(requiredUpdateReplicaSetOps).user_id)
  /\ [][PlannerStarted =>
          /\ reconfig = NoReconfig
          /\ reconfig'.user_id = Head(requiredUpdateReplicaSetOps).user_id
          /\ reconfig'.called = 0
          /\ UNCHANGED << waiting, ursmWrites, requiredUpdateReplicaSetOps >>]_vars
  /\ [][SeedSyncCalled =>
          PlannerRunning /\ last'.wallet = Head(requiredUpdateReplicaSetOps).wallet]_vars
  /\ [][ReplicaSetWritten =>
          /\ PlannerRunning
          /\ LastWrite(ursmWrites').user_id = Head(requiredUpdateReplicaSetOps).user_id]_vars
  /\ [][(smPc = "reconfig" /\ requiredUpdateReplicaSetOps' # requiredUpdateReplicaSetOps) =>
          /\ reconfig' = NoReconfig
          /\ \/ smPc' = "reconfig" /\ requiredUpdateReplicaSetOps' = Tail(requiredUpdateReplicaSetOps)
             \/ smPc' # "reconfig" /\ Len(requiredUpdateReplicaSetOps) = 1]_vars

\* the planner runs for the second user of the slice after the registry write
\* of the first
SecondUserPlannedAfterFirstWritten ==
  /\ PlannerRunning
  /\ Len(SliceUserIds) = 2
  /\ reconfig.user_id = SliceUserIds[2]
  /\ Len(ursmWrites) = 1
  /\ ursmWrites[1].user_id = SliceUserIds[1]

\* the enqueueSync calls of the branch issueUpdateReplicaSetOp has taken:
\* three for no healthy replica, two for one or two
SeedSyncsOfBranch == IF Len(reconfig.healthyReplicas) = 0 THEN 3 ELSE 2

\* the step ends a call of issueUpdateReplicaSetOp before its registry write:
\* autoSelectCreatorNodes, the clock fetch or a seed enqueueSync has thrown
PlannerFailedBeforeWrite ==
  /\ PlannerEnded
  /\ \/ reconfig.phase = "none"
     \/ SeedSyncCalled /\ last'.op = "err"

\* C34: a registry write for a user is issued only once every seed
\* enqueueSync of the user's branch has returned; a call that fails in the
\* candidate selection, the clock fetch or a seed enqueueSync ends without a
\* registry write, and no write of the pass is for a user whose call has not
\* run to its write.
RegistryWriteFollowsAllSeedSyncs ==
  /\ [][ReplicaSetWritten =>
          /\ PlannerRunning
          /\ reconfig.seeds = <<>> /\ reconfig.enq = NoJob
          /\ reconfig.called = SeedSyncsOfBranch
          /\ LastWrite(ursmWrites').user_id = reconfig.user_id
          /\ ursmWrites' = Append(ursmWrites, LastWrite(ursmWrites'))]_vars
  /\ [][PlannerFailedBeforeWrite => ursmWrites' = ursmWrites]_vars
  /\ [](smPc = "reconfig" =>
          \A i \in 1..Len(ursmWrites) : ursmWrites[i].user_id \notin Range(RemainingUserIds))
  /\ [](\A i, j \in 1..Len(ursmWrites) :
          ursmWrites[i].user_id = ursmWrites[j].user_id => i = j)

\* the registry write of the first user of the slice has followed its two
\* seed syncs, and a seed enqueueSync of the second user has thrown
WrittenAfterSeedsAndSeedFailed ==
  /\ Len(ursmWrites) = 1
  /\ Len(waiting[ManualSyncQueue]) = 2
  /\ \A i \in 1..2 :
       \E u \in Range(discoveryUsers) :
         u.user_id = ursmWrites[1].user_id /\ waiting[ManualSyncQueue][i].wallet = u.wallet
  /\ last.op = "err" /\ last.syncType = Manual
  /\ \E u \in Range(discoveryUsers) :
       u.wallet = last.wallet /\ u.user_id # ursmWrites[1].user_id

\* the step is the re-enqueue of processSyncOperation of worker k, and
\* queue.add has put the successor on the queue
SuccessorAdded(k) == Polled(k) /\ last'.op = "added" /\ worker'[k].pc = "requeue"

\* C35: the successor a worker re-enqueues names the source endpoint of the
\* job the worker runs, whatever that source is.
SuccessorKeepsSourceEndpoint ==
  [][\A k \in Workers :
       SuccessorAdded(k) =>
         /\ worker'[k].enq.primary = worker[k].job.primary
         /\ AddedJob(ProcessorSyncType(k[1])).primary = worker[k].job.primary]_vars

\* a job with the fingerprint of de-duplicator entry e waits on the queue of
\* its syncType
EntryHasWaitingJob(e) ==
  \E i \in 1..Len(waiting[QueueOf(e.syncType)]) :
    Fingerprint(waiting[QueueOf(e.syncType)][i]) = Fingerprint(e)

\* C36: whenever the de-duplicator holds an entry for a fingerprint, a job of
\* that fingerprint waits on the queue of its syncType: once the jobs of the
\* fingerprint have all been pulled, no entry is left to block an enqueueSync.
DeDuplicatorEntryHasWaitingJob ==
  \A e \in syncDeDuplicator : EntryHasWaitingJob(e)

\* the step is the end of the job of worker k on a failure of the primary
\* clock fetch or of the POST of the sync request
PostFailed(k) == worker[k].pc = "post" /\ worker'[k].pc = "idle"

\* the processor's catch ends the job: no monitoring, no enqueueSync, the
\* queues and the de-duplicator are left alone and the processor is free
PostFailureEndsJob(k) ==
  /\ worker'[k] = IdleWorker
  /\ ~EnqueueSyncCalled
  /\ polled' = NoPoll
  /\ UNCHANGED << waiting, syncDeDuplicator >>

\* after the step the de-duplicator holds an entry of the fingerprint of the
\* job of worker k only for a job that waits
FingerprintStaysRemoved(k) ==
  \A e \in syncDeDuplicator' :
    Fingerprint(e) = Fingerprint(worker[k].job) =>
      \E i \in 1..Len(waiting'[QueueOf(e.syncType)]) :
        Fingerprint(waiting'[QueueOf(e.syncType)][i]) = Fingerprint(e)

\* C37: when the POST of the sync request fails the worker ends the job
\* without monitoring and without a successor and is free again, and the
\* de-duplicator holds no entry of the job's fingerprint that would keep a
\* later enqueueSync from adding a new job.
PostFailureLeavesFingerprintFree ==
  [][\A k \in Workers :
       PostFailed(k) => PostFailureEndsJob(k) /\ FingerprintStaysRemoved(k)]_vars

\* this node is a member of the replica set of reconfig request op
HoldsThisNode(op) == Self \in {op.primary, op.secondary1, op.secondary2}

\* the healthy replicas issueUpdateReplicaSetOp computes for request op
HealthyReplicasOfOp(op) ==
  HealthyReplicas(<<op.primary, op.secondary1, op.secondary2>>, Range(op.unhealthyReplicas))

\* C38: no reconfig request the loop has built names this node among its
\* unhealthyReplicas, whatever the health probe has answered; so for a user
\* of this node issueUpdateReplicaSetOp finds this node, hence at least one
\* replica, healthy, and never takes the branch for no healthy replica.
OwnEndpointIsNeverUnhealthyReplica ==
  /\ [](\A i \in 1..Len(requiredUpdateReplicaSetOps) :
          LET op == requiredUpdateReplicaSetOps[i]
          IN /\ Self \notin Range(op.unhealthyReplicas)
             /\ HoldsThisNode(op) =>
                  /\ Len(HealthyReplicasOfOp(op)) >= 1
                  /\ Self \in Range(HealthyReplicasOfOp(op)))
  /\ []((PlannerRunning /\ Self \in Range(reconfig.current)) =>
          /\ Self \notin reconfig.unhealthyReplicas
          /\ Self \in Range(reconfig.healthyReplicas)
          /\ Len(reconfig.healthyReplicas) >= 1
          /\ reconfig.newReplicaSet # <<NewPrimary, NewSecondary1, NewSecondary2>>
          /\ reconfig.newReplicaSet[1] # NewPrimary)

\* the planner runs with this node as the one healthy replica of a user
\* although the health probe has named this node too
PlannerSeesOwnNodeHealthy ==
  /\ PlannerRunning
  /\ Self \in unhealthyPeers
  /\ \A e \in Range(reconfig.current) : e \in unhealthyPeers
  /\ reconfig.healthyReplicas = << Self >>

\* the seed syncs <<source, target>> of the running call, enqueued or not
\* yet: those of the branch taken
SeedsOfBranch ==
  ReplicaSetDecision(reconfig.current[1], reconfig.healthyReplicas, reconfig.clocks).seeds

\* C39: in issueUpdateReplicaSetOp the absent secondary slot of an incomplete
\* replica set is not among the healthy replicas, is neither primary nor
\* secondary of the new replica set, and is neither source nor target of a
\* seed sync.
AbsentSlotIsNoSurvivor ==
  PlannerRunning =>
    /\ NoEndpoint \notin Range(reconfig.healthyReplicas)
    /\ NoEndpoint \notin Range(reconfig.newReplicaSet)
    /\ \A i \in 1..Len(SeedsOfBranch) :
         SeedsOfBranch[i][1] # NoEndpoint /\ SeedsOfBranch[i][2] # NoEndpoint

====
